---- MODULE Spec2Model ----
(***************************************************************************)
(* Model of the SandboxManager of the Express + Puppeteer backend          *)
(* (server/sandboxManager.js): the registry `sandboxes`, the id counter    *)
(* `sequence`, the sandbox objects, the launch pipeline of each sandbox    *)
(* (one step per await) and deleteSandbox (one step per await).            *)
(*                                                                         *)
(* JavaScript runs each handler to completion up to its next await, so an  *)
(* action is the code between two awaits; the outcome of the awaited       *)
(* operation (resolve or reject) is chosen by the environment.             *)
(***************************************************************************)
EXTENDS Integers, Sequences, FiniteSets, TLC

\* ------------------------------------------------------------- bounds
\* Sandboxes ever created in one behaviour of Spec (caps the id counter).
MaxSandboxes == 1
\* Sandboxes ever created in one behaviour of SpecApi.
MaxBatch == 3
\* Sandboxes ever created in one behaviour of SpecPipeline.
MaxPipelines == 2
\* deleteSandbox calls that may be in flight at the same time.
MaxDeleters == 2
\* Largest count passed to one createSandboxes call.
MaxCount == 3
\* Frames other than the awaited response that arrive in one harvest session.
MaxFrames == 3
\* Cookies observed by one cookie export.
MaxCookies == 3
\* Entries of the keywords array of one findClickableByText call.
MaxKeywords == 2
\* Elements of the document one findClickableByText call scans.
MaxElements == 2
\* Lines of one raw accounts text.
MaxLines == 2
\* Entries of LOGIN_KEYWORDS tried by one trySiteGoogleLogin call.
MaxTriggers == 3

VARIABLES
    sandboxes,      \* keys of the Map this.sandboxes
    sequence,       \* this.sequence
    heap,           \* id -> the sandbox object (it outlives its Map entry)
    executablePath, \* this.executablePath (cached by resolveExecutablePath)
    task,           \* id -> position of launchSandbox(sandbox) and the error it threw
    proc,           \* id -> the browser process of the sandbox is alive
    dir,            \* id -> the profile directory of the sandbox exists on disk
    installed,      \* a browser executable can be detected on this machine
    del,            \* deleteSandbox calls in flight (one slot per concurrent caller)
    ret,            \* what the last finished createSandboxes/deleteSandbox call returned
    everAssigned,   \* history: every id handed out so far
    client,         \* the cookie harvest client on one DevTools channel
    export,     \* the cookie export: cookies observed, aggregated, written
    finder,     \* one findClickableByText call on one document
    parser,     \* one parse of a raw accounts text, and the parse of its re-serialization
    scope,      \* one scoped cookie harvest: the URLs asked for, the cookies persisted
    site        \* the trySiteGoogleLogin call followed step by step

vars == <<sandboxes, sequence, heap, executablePath, task, proc, dir, installed,
          del, ret, everAssigned, client, export, finder, parser, scope, site>>

\* ------------------------------------------------------ JavaScript values
Null == "null"

JsUndefined == [t |-> "undefined", n |-> 0, s |-> ""]
JsNaN == [t |-> "nan", n |-> 0, s |-> ""]
JsNum(k) == [t |-> "number", n |-> k, s |-> ""]
JsStr(x) == [t |-> "string", n |-> 0, s |-> x]

\* ToBoolean: undefined, NaN, 0 and "" are falsy.
Truthy(x) ==
    CASE x.t = "undefined" -> FALSE
      [] x.t = "nan" -> FALSE
      [] x.t = "number" -> x.n # 0
      [] x.t = "string" -> x.s # ""

\* The decimal strings the inputs use, with their values.
NumericStrings == {<<"1", 1>>, <<"2", 2>>, <<"3", 3>>}

\* Number(x) for the values above.
ToNumber(x) ==
    CASE x.t = "undefined" -> JsNaN
      [] x.t = "nan" -> JsNaN
      [] x.t = "number" -> x
      [] x.t = "string" ->
            IF x.s = "" THEN JsNum(0)
            ELSE IF \E p \in NumericStrings : p[1] = x.s
                 THEN JsNum((CHOOSE p \in NumericStrings : p[1] = x.s)[2])
                 ELSE JsNaN

\* -------------------------------------------------------------- accounts
Account(e, p, r) == [email |-> e, password |-> p, recoveryEmail |-> r]
A1 == Account("a@x.com", "pw1", "r@x.com")
A2 == Account("b@x.com", "pw2", "")
NoPassword == Account("c@x.com", "", "r@x.com")

\* parseAccounts(accounts, rawAccounts) for an array `accounts` and an empty
\* rawAccounts: the entries with an email and a password, in order.
RECURSIVE parseAccounts(_)
parseAccounts(accounts) ==
    IF accounts = <<>> THEN <<>>
    ELSE LET a == Head(accounts)
             rest == parseAccounts(Tail(accounts))
         IN IF a.email # "" /\ a.password # ""
            THEN <<Account(a.email, a.password, a.recoveryEmail)>> \o rest
            ELSE rest

\* ---------------------------------------------------------------- inputs
CountInputs ==
    {JsUndefined, JsStr("abc"), JsStr("2")} \cup {JsNum(k) : k \in -1 .. MaxCount}
\* The counts tried together with a refused defaultUrl.
ThrowCounts == {JsUndefined, JsNum(0), JsNum(2)}
UrlInputs == {JsUndefined, JsStr(""), JsNum(7), JsStr("https://example.com")}
AccountInputs == {<<>>, <<A1>>, <<NoPassword, A1, A2>>}
LifecyclePools == {<<>>, <<A1>>}
PipelinePools == {<<>>, <<A1, A2>>}
\* <<useGoogleLogin, enableSiteAutomation>>
FlagInputs == BOOLEAN \X BOOLEAN
ApiFlags == {<<TRUE, TRUE>>}

\* ------------------------------------------------------- createSandboxes
\* `!defaultUrl || typeof defaultUrl !== 'string'`
BadUrlMut(defaultUrl) == ~Truthy(defaultUrl)
BadUrl(defaultUrl) == ~Truthy(defaultUrl) \/ defaultUrl.t # "string"

\* Iterations of `for (let i = 0; i < Number(count || 1); i += 1)` with the
\* destructuring default `count = 1`.
LoopCountMut(count) ==
    LET n == ToNumber(IF count.t = "undefined" THEN JsNum(1) ELSE count)
    IN IF n.t = "number" /\ n.n > 0 THEN n.n + 1 ELSE 0
LoopCount(count) ==
    LET c == IF count.t = "undefined" THEN JsNum(1) ELSE count
        n == ToNumber(IF Truthy(c) THEN c ELSE JsNum(1))
    IN IF n.t = "number" /\ n.n > 0 THEN n.n ELSE 0

\* `const id = this.sequence++` in iteration i of the loop.
NextIdMut(seq, reg, i) == Cardinality(reg) + 1 + i
NextId(seq, reg, i) == seq + i

\* `accounts.length > 0 ? accounts[i % accounts.length] : null` (i from 0);
\* an optional value is the empty set or a singleton.
PickAccountMut(accounts, i) ==
    IF Len(accounts) > 0
    THEN {accounts[(IF i < Len(accounts) THEN i ELSE Len(accounts) - 1) + 1]}
    ELSE {}
PickAccount(accounts, i) ==
    IF Len(accounts) > 0 THEN {accounts[(i % Len(accounts)) + 1]} ELSE {}

\* The object literal of createSandboxes.
NewSandbox(id, defaultUrl, account, useGoogleLogin, enableSiteAutomation) ==
    [id |-> id,
     status |-> "initializing",
     defaultUrl |-> defaultUrl,
     account |-> account,
     useGoogleLogin |-> useGoogleLogin,
     enableSiteAutomation |-> enableSiteAutomation,
     userDataDir |-> Null,
     browser |-> Null,
     page |-> Null,
     currentUrl |-> Null,
     cookieFile |-> Null,
     error |-> Null]

serializeSandboxMut(sandbox) ==
    [id |-> sandbox.id,
     status |-> sandbox.status,
     defaultUrl |-> sandbox.defaultUrl,
     currentUrl |-> sandbox.currentUrl,
     account |-> sandbox.account,
     cookieFile |-> sandbox.cookieFile,
     error |-> sandbox.error]
serializeSandbox(sandbox) ==
    [id |-> sandbox.id,
     status |-> sandbox.status,
     defaultUrl |-> sandbox.defaultUrl,
     currentUrl |-> sandbox.currentUrl,
     account |-> {[email |-> a.email] : a \in sandbox.account},
     cookieFile |-> sandbox.cookieFile,
     error |-> sandbox.error]

listSandboxes == {serializeSandbox(heap[i]) : i \in sandboxes}

\* ------------------------------------------------------------- returns
\* `ret` is the answer of the call that returned in the last step, NoReturn
\* when the last step returned from no call.
NoArgs == [count |-> JsUndefined, defaultUrl |-> JsUndefined, accounts |-> <<>>, id |-> 0]
Returned(op, outcome, args, created, alive) ==
    [op |-> op, outcome |-> outcome, args |-> args, created |-> created, alive |-> alive]
NoReturn == Returned("none", "ok", NoArgs, <<>>, FALSE)

\* The ids of the sandbox objects created so far.
Ids == DOMAIN heap

\* The state of launchSandbox(sandbox) right after it was called: it runs up to
\* `await fs.mkdtemp(...)`.
Started == [pc |-> "mkdtemp", thrown |-> Null, soft |-> {}]

\* createSandboxes with a defaultUrl that fails the check of line 57.
createSandboxesThrow(count, defaultUrl) ==
    /\ BadUrl(defaultUrl)
    /\ ret' = Returned("create", "throw",
                       [NoArgs EXCEPT !.count = count, !.defaultUrl = defaultUrl], <<>>, FALSE)
    /\ UNCHANGED <<sandboxes, sequence, heap, executablePath, task, proc, dir,
                   installed, client, export, del, everAssigned, finder, parser, scope, site>>

\* createSandboxes past the check: the loop registers each sandbox, calls
\* launchSandbox (which runs up to its first await) and pushes the snapshot.
createSandboxes(limit, count, defaultUrl, useGoogleLogin, enableSiteAutomation, accountsIn) ==
    LET accounts == parseAccounts(accountsIn)
        n == LoopCount(count)
        idOf(i) == NextId(sequence, sandboxes, i)
        ids == {idOf(i) : i \in 0 .. n - 1}
        made(id) == LET i == CHOOSE j \in 0 .. n - 1 : idOf(j) = id
                    IN NewSandbox(id, defaultUrl.s, PickAccount(accounts, i),
                                  useGoogleLogin, enableSiteAutomation)
    IN /\ ~BadUrl(defaultUrl)
       /\ sequence + n - 1 <= limit
       /\ sandboxes' = sandboxes \cup ids
       /\ sequence' = sequence + n
       /\ heap' = [i \in Ids \cup ids |-> IF i \in ids THEN made(i) ELSE heap[i]]
       /\ task' = [i \in Ids \cup ids |-> IF i \in ids THEN Started ELSE task[i]]
       /\ proc' = [i \in Ids \cup ids |-> IF i \in ids THEN FALSE ELSE proc[i]]
       /\ dir' = [i \in Ids \cup ids |-> IF i \in ids THEN FALSE ELSE dir[i]]
       /\ everAssigned' = everAssigned \cup ids
       /\ ret' = Returned("create", "ok",
                          [count |-> count, defaultUrl |-> defaultUrl,
                           accounts |-> accountsIn, id |-> 0],
                          [k \in 1 .. n |-> serializeSandbox(made(idOf(k - 1)))], FALSE)
       /\ UNCHANGED <<executablePath, installed, client, export, del, finder, parser, scope, site>>

\* A createSandboxes call with a defaultUrl the check accepts.
CreateCall(limit, counts, pools, flagSet) ==
    \E count \in counts, defaultUrl \in UrlInputs, accountsIn \in pools, flags \in flagSet :
        createSandboxes(limit, count, defaultUrl, flags[1], flags[2], accountsIn)

\* A createSandboxes call with a defaultUrl the check refuses.
CreateCallThrow ==
    \E count \in ThrowCounts, defaultUrl \in UrlInputs :
        createSandboxesThrow(count, defaultUrl)

\* ----------------------------------------------------------- listSandboxes
\* The ids of a set in ascending order: the order of insertion into the Map,
\* which `this.sandboxes.values()` follows.
RECURSIVE Ascending(_)
Ascending(ids) ==
    IF ids = {} THEN <<>>
    ELSE LET first == CHOOSE i \in ids : \A j \in ids : i <= j
         IN <<first>> \o Ascending(ids \ {first})

\* The sandbox objects a summary returned by serializeSandbox is one object
\* with: none, the summary and its `account` are new object literals.
SharesMut(summary) == {summary.id}
Shares(summary) == {}

\* listSandboxes(): the summaries of the registered sandboxes.
ListCall ==
    /\ LET ids == Ascending(sandboxes)
       IN ret' = Returned("list", "ok", NoArgs,
                          [k \in DOMAIN ids |-> serializeSandbox(heap[ids[k]])], FALSE)
    /\ UNCHANGED <<sandboxes, sequence, heap, executablePath, task, proc, dir,
                   installed, client, export, del, everAssigned, finder, parser, scope, site>>

\* An assignment by the caller to a field of an object it holds.
Mutated(object, field) ==
    CASE field = "status" -> [object EXCEPT !.status = "mutated"]
      [] field = "cookieFile" -> [object EXCEPT !.cookieFile = "mutated"]
      [] field = "account" ->
            [object EXCEPT !.account = {[a EXCEPT !.email = "mutated"] : a \in @}]

\* The caller of listSandboxes assigns to a field of the k-th summary it got;
\* the assignment reaches every object the summary is one object with.
CallerMutates(k, field) ==
    /\ ret.op = "list"
    /\ k \in DOMAIN ret.created
    /\ ret' = [ret EXCEPT !.op = "mutated", !.created[k] = Mutated(@, field)]
    /\ heap' = [i \in DOMAIN heap |->
                  IF i \in Shares(ret.created[k]) THEN Mutated(heap[i], field) ELSE heap[i]]
    /\ UNCHANGED <<sandboxes, sequence, executablePath, task, proc, dir,
                   installed, client, export, del, everAssigned, finder, parser, scope, site>>

\* ------------------------------------------------------- launchSandbox
At(i, pc) == i \in Ids /\ task[i].pc = pc

Goto(i, pc) == task' = [task EXCEPT ![i].pc = pc]

\* launchSandbox rejects with `msg`: the .catch handler createSandboxes
\* attached runs as the next microtask, before any other handler or I/O
\* completion, so the two are one step. `h` is the heap at the throw.
RejectMut(i, msg, h) ==
    /\ heap' = [j \in DOMAIN h |-> [h[j] EXCEPT !.status = "error", !.error = msg]]
    /\ task' = [task EXCEPT ![i].pc = "failed", ![i].thrown = msg]
Reject(i, msg, h) ==
    /\ heap' = [h EXCEPT ![i].status = "error", ![i].error = msg]
    /\ task' = [task EXCEPT ![i].pc = "failed", ![i].thrown = msg]

\* The catch block of launchSandbox up to `await browser.close()`.
CatchBlockMut(i, msg) ==
    /\ heap' = [heap EXCEPT ![i].status = "error"]
    /\ task' = [task EXCEPT ![i].pc = "closing", ![i].thrown = msg]
CatchBlock(i, msg) ==
    /\ heap' = [heap EXCEPT ![i].status = "error", ![i].error = msg]
    /\ task' = [task EXCEPT ![i].pc = "closing", ![i].thrown = msg]

\* `sandbox.useGoogleLogin && sandbox.account`
LoginGateMut(sandbox) == sandbox.useGoogleLogin
LoginGate(sandbox) == sandbox.useGoogleLogin /\ sandbox.account # {}

\* `sandbox.useGoogleLogin && sandbox.enableSiteAutomation && sandbox.account`
SiteGate(sandbox) ==
    sandbox.useGoogleLogin /\ sandbox.enableSiteAutomation /\ sandbox.account # {}

\* fs.mkdtemp resolved: the directory exists; resolveExecutablePath() runs
\* (it throws when no browser is detected) and puppeteer.launch is called.
MkdtempResolve(i) ==
    /\ At(i, "mkdtemp")
    /\ dir' = [dir EXCEPT ![i] = TRUE]
    /\ LET h == [heap EXCEPT ![i].userDataDir = "dir"]
       IN IF executablePath # Null \/ installed
          THEN /\ heap' = h
               /\ Goto(i, "launch")
               /\ executablePath' = "chrome"
          ELSE /\ Reject(i, "no browser found", h)
               /\ UNCHANGED executablePath
    /\ ret' = NoReturn
    /\ UNCHANGED <<sandboxes, sequence, proc, installed, client, export, del, everAssigned, finder, parser, scope, site>>

MkdtempReject(i) ==
    /\ At(i, "mkdtemp")
    /\ Reject(i, "mkdtemp failed", heap)
    /\ ret' = NoReturn
    /\ UNCHANGED <<sandboxes, sequence, executablePath, proc, dir, installed, client, export, del,
                   everAssigned, finder, parser, scope, site>>

\* Inside puppeteer.launch: the browser process starts on the profile
\* directory (it creates the directory when it is missing).
LaunchSpawn(i) ==
    /\ At(i, "launch")
    /\ proc' = [proc EXCEPT ![i] = TRUE]
    /\ dir' = [dir EXCEPT ![i] = TRUE]
    /\ Goto(i, "handshake")
    /\ ret' = NoReturn
    /\ UNCHANGED <<sandboxes, sequence, heap, executablePath, installed, client, export, del, everAssigned, finder, parser, scope, site>>

\* puppeteer.launch rejects (the process did not start, or the handshake timed
\* out and puppeteer killed the process).
LaunchRejectMut(i) ==
    /\ At(i, "launch") \/ At(i, "handshake")
    /\ proc' = [proc EXCEPT ![i] = FALSE]
    /\ heap' = [heap EXCEPT ![i].status = "error", ![i].error = "launch failed"]
    /\ task' = [task EXCEPT ![i].pc = "launch", ![i].thrown = "launch failed"]
    /\ ret' = NoReturn
    /\ UNCHANGED <<sandboxes, sequence, executablePath, dir, installed, client, export, del,
                   everAssigned, finder, parser, scope, site>>
LaunchReject(i) ==
    /\ At(i, "launch") \/ At(i, "handshake")
    /\ proc' = [proc EXCEPT ![i] = FALSE]
    /\ Reject(i, "launch failed", heap)
    /\ ret' = NoReturn
    /\ UNCHANGED <<sandboxes, sequence, executablePath, dir, installed, client, export, del,
                   everAssigned, finder, parser, scope, site>>

\* puppeteer.launch resolved: `sandbox.browser = browser`, then browser.pages().
LaunchResolve(i) ==
    /\ At(i, "handshake")
    /\ proc[i]
    /\ heap' = [heap EXCEPT ![i].browser = "browser"]
    /\ Goto(i, "pages")
    /\ ret' = NoReturn
    /\ UNCHANGED <<sandboxes, sequence, executablePath, proc, dir, installed, client, export, del,
                   everAssigned, finder, parser, scope, site>>

\* browser.pages() (and newPage) resolved: `sandbox.page = page`, then the try
\* block starts with loginToGoogle or page.goto.
PagesResolve(i) ==
    /\ At(i, "pages")
    /\ proc[i]
    /\ heap' = [heap EXCEPT ![i].page = "page"]
    /\ Goto(i, IF LoginGate(heap[i]) THEN "login" ELSE "goto")
    /\ ret' = NoReturn
    /\ UNCHANGED <<sandboxes, sequence, executablePath, proc, dir, installed, client, export, del,
                   everAssigned, finder, parser, scope, site>>

PagesReject(i) ==
    /\ At(i, "pages")
    /\ Reject(i, "pages failed", heap)
    /\ ret' = NoReturn
    /\ UNCHANGED <<sandboxes, sequence, executablePath, proc, dir, installed, client, export, del,
                   everAssigned, finder, parser, scope, site>>

\* An awaited browser operation of the try block resolved; it needs the
\* browser process.
StepResolve(i, from, to) ==
    /\ At(i, from)
    /\ proc[i]
    /\ Goto(i, to)
    /\ ret' = NoReturn
    /\ UNCHANGED <<sandboxes, sequence, heap, executablePath, proc, dir, installed, client, export, del,
                   everAssigned, finder, parser, scope, site>>

\* An awaited operation of the try block rejected: the catch block runs.
StepReject(i, from, msg) ==
    /\ At(i, from)
    /\ CatchBlock(i, msg)
    /\ ret' = NoReturn
    /\ UNCHANGED <<sandboxes, sequence, executablePath, proc, dir, installed, client, export, del,
                   everAssigned, finder, parser, scope, site>>

\* An optional element was missing or its step failed: the failure is swallowed
\* and the pipeline goes on at `to`; `what` is remembered in task[i].soft.
SoftStepMut(i, from, to, what) ==
    /\ At(i, from)
    /\ heap' = [heap EXCEPT ![i].status = "error", ![i].error = "element missing"]
    /\ task' = [task EXCEPT ![i].pc = "closing", ![i].thrown = "element missing",
                            ![i].soft = @ \cup what]
    /\ ret' = NoReturn
    /\ UNCHANGED <<sandboxes, sequence, executablePath, proc, dir, installed, client, export, del,
                   everAssigned, finder, parser, scope, site>>
SoftStep(i, from, to, what) ==
    /\ At(i, from)
    /\ task' = [task EXCEPT ![i].pc = to, ![i].soft = @ \cup what]
    /\ ret' = NoReturn
    /\ UNCHANGED <<sandboxes, sequence, heap, executablePath, proc, dir, installed, client, export, del,
                   everAssigned, finder, parser, scope, site>>

\* loginToGoogle: the positions of its mandatory steps and the message of the
\* error each one throws.
LoginSteps ==
    {<<"login", "identity page failed">>,
     <<"loginEmail", "email field missing">>,
     <<"loginPassword", "password field missing">>}

\* The position after a mandatory step of loginToGoogle; after the password
\* step the recovery part runs only for an account with a recoveryEmail.
AfterLoginMut(sandbox, from) == "goto"
AfterLogin(sandbox, from) ==
    CASE from = "login" -> "loginEmail"
      [] from = "loginEmail" -> "loginPassword"
      [] from = "loginPassword" ->
            IF \E a \in sandbox.account : a.recoveryEmail # ""
            THEN "loginRecovery" ELSE "loginIdle"

\* A mandatory step of loginToGoogle resolved (page.goto, the email field and
\* its Next, the password field and its Next).
LoginResolve(i) ==
    \E st \in LoginSteps : StepResolve(i, st[1], AfterLogin(heap[i], st[1]))

\* A mandatory step of loginToGoogle rejected: loginToGoogle rejects and the
\* catch block of launchSandbox runs.
LoginRejectMut(i, from, msg) ==
    /\ At(i, from)
    /\ heap' = [heap EXCEPT ![i].status = "error", ![i].error = msg]
    /\ task' = [task EXCEPT ![i].pc = "goto", ![i].thrown = msg]
    /\ ret' = NoReturn
    /\ UNCHANGED <<sandboxes, sequence, executablePath, proc, dir, installed, client, export, del,
                   everAssigned, finder, parser, scope, site>>
LoginReject(i, from, msg) == StepReject(i, from, msg)

\* The recovery part of loginToGoogle: the field is filled, or it does not
\* appear within 5 s, or filling it throws inside the try block; every outcome
\* goes on to the final waitForPageIdle.
LoginRecoveryDone(i) ==
    \/ SoftStep(i, "loginRecovery", "loginIdle", {})
    \/ SoftStep(i, "loginRecovery", "loginIdle", {"recovery"})

\* The final waitForPageIdle and delay of loginToGoogle; then page.goto.
LoginIdleDone(i) == SoftStep(i, "loginIdle", "goto", {})
GotoResolve(i) == StepResolve(i, "goto", "idle")
GotoReject(i) == StepReject(i, "goto", "navigation failed")

\* waitForPageIdle never rejects; `sandbox.currentUrl = page.url()`.
IdleDone(i) ==
    /\ At(i, "idle")
    /\ heap' = [heap EXCEPT ![i].currentUrl = heap[i].defaultUrl]
    /\ Goto(i, IF SiteGate(heap[i]) THEN "site" ELSE "pages2")
    /\ ret' = NoReturn
    /\ UNCHANGED <<sandboxes, sequence, executablePath, proc, dir, installed, client, export, del,
                   everAssigned, finder, parser, scope, site>>

\* trySiteGoogleLogin, the loop over LOGIN_KEYWORDS: a trigger is found and
\* clicked, or none is found; then the search for the Google button starts.
SiteTriggerDone(i) ==
    \/ StepResolve(i, "site", "siteButton")
    \/ At(i, "site") /\ proc[i] /\ SoftStep(i, "site", "siteButton", {"trigger"})

\* trySiteGoogleLogin, the Google button: found (the popup wait is registered
\* and the button clicked), or not found (`return false`).
SiteButtonDone(i) ==
    \/ StepResolve(i, "siteButton", "sitePopup")
    \/ At(i, "siteButton") /\ proc[i] /\ SoftStep(i, "siteButton", "pages2", {"button"})

\* trySiteGoogleLogin after the click, `await popupTargetPromise`: a page
\* target opened by the page appeared within 10 s and popupTarget.page() is
\* called, or none did (the rejection is turned into null) and
\* waitForPageIdle(page) is called.
SitePopupDone(i) ==
    \/ SoftStep(i, "sitePopup", "sitePopupPage", {})
    \/ SoftStep(i, "sitePopup", "siteIdle", {})

\* `await popupTarget.page().catch(() => null)`: with a page the function
\* goes on to waitForPageIdle(popupPage); with null (the target has no page, or
\* page() rejected) it is at `return true`.
SitePopupPageDone(i) ==
    \/ SoftStep(i, "sitePopupPage", "sitePopupIdle", {})
    \/ SoftStep(i, "sitePopupPage", "pages2", {})

\* waitForPageIdle(popupPage) and delay(2000) are over (neither rejects);
\* popupPage.waitForClose is called.
SitePopupIdleDone(i) == SoftStep(i, "sitePopupIdle", "sitePopupClose", {})

\* popupPage.waitForClose resolved, or it rejected (120 s timeout) and the
\* rejection is swallowed; `return true`.
SitePopupCloseDone(i) == SoftStep(i, "sitePopupClose", "pages2", {})

\* No popup: waitForPageIdle(page) and delay(1500) are over; `return true`.
SiteIdleDone(i) == SoftStep(i, "siteIdle", "pages2", {})

\* A findClickableByText call of trySiteGoogleLogin rejected (its page.$x or
\* handle.dispose failed): trySiteGoogleLogin rejects.
SiteReject(i) ==
    \/ StepReject(i, "site", "site login failed")
    \/ StepReject(i, "siteButton", "site login failed")

\* browser.pages() resolved: `sandbox.currentUrl = activePage.url()`, then
\* saveCookies starts and awaits its CDP session.
Pages2Resolve(i) ==
    /\ At(i, "pages2")
    /\ proc[i]
    /\ heap' = [heap EXCEPT ![i].currentUrl = heap[i].defaultUrl]
    /\ Goto(i, "cookies")
    /\ ret' = NoReturn
    /\ UNCHANGED <<sandboxes, sequence, executablePath, proc, dir, installed, client, export, del,
                   everAssigned, finder, parser, scope, site>>

Pages2Reject(i) == StepReject(i, "pages2", "pages failed")

\* launchSandbox after saveCookies returned: `sandbox.status = 'running'`; `h`
\* is the heap saveCookies left.
PipelineDoneMut(i, h) ==
    /\ heap' = h
    /\ Goto(i, "done")
PipelineDone(i, h) ==
    /\ heap' = [h EXCEPT ![i].status = "running"]
    /\ Goto(i, "done")

\* saveCookies: Network.getAllCookies answered with no cookie: it returns.
CookiesEmptyMut(i) ==
    /\ At(i, "cookies")
    /\ proc[i]
    /\ PipelineDone(i, [heap EXCEPT ![i].cookieFile = "file"])
    /\ ret' = NoReturn
    /\ UNCHANGED <<sandboxes, sequence, executablePath, proc, dir, installed, client, export, del,
                   everAssigned, finder, parser, scope, site>>
CookiesEmpty(i) ==
    /\ At(i, "cookies")
    /\ proc[i]
    /\ PipelineDone(i, heap)
    /\ ret' = NoReturn
    /\ UNCHANGED <<sandboxes, sequence, executablePath, proc, dir, installed, client, export, del,
                   everAssigned, finder, parser, scope, site>>

\* saveCookies: cookies came back; it goes on to waitForPageIdle and writeFile.
CookiesFound(i) == StepResolve(i, "cookies", "write")
CookiesReject(i) == StepReject(i, "cookies", "cookie export failed")

\* saveCookies: the file is written, `sandbox.cookieFile = fileName`.
WriteResolve(i) ==
    /\ At(i, "write")
    /\ PipelineDone(i, [heap EXCEPT ![i].currentUrl = heap[i].defaultUrl,
                                    ![i].cookieFile = "file"])
    /\ ret' = NoReturn
    /\ UNCHANGED <<sandboxes, sequence, executablePath, proc, dir, installed, client, export, del,
                   everAssigned, finder, parser, scope, site>>

WriteReject(i) == StepReject(i, "write", "write failed")

\* The catch block after `await browser.close().catch(() => {})`: `throw error`.
\* A failed close is swallowed and leaves the process as it was.
CatchRethrowMut(i) == PipelineDone(i, heap)
CatchRethrow(i) == Reject(i, task[i].thrown, heap)

CatchCloseDone(i, closed) ==
    /\ At(i, "closing")
    /\ proc' = [proc EXCEPT ![i] = IF closed THEN FALSE ELSE @]
    /\ CatchRethrow(i)
    /\ ret' = NoReturn
    /\ UNCHANGED <<sandboxes, sequence, executablePath, dir, installed, client, export, del,
                   everAssigned, finder, parser, scope, site>>

\* launchSandbox up to the browser handle.
Launch(i) ==
    \/ MkdtempResolve(i) \/ MkdtempReject(i)
    \/ LaunchSpawn(i) \/ LaunchReject(i) \/ LaunchResolve(i)

\* launchSandbox from browser.pages() on.
Automation(i) ==
    \/ PagesResolve(i) \/ PagesReject(i)
    \/ LoginResolve(i)
    \/ \E st \in LoginSteps : LoginReject(i, st[1], st[2])
    \/ LoginRecoveryDone(i) \/ LoginIdleDone(i)
    \/ GotoResolve(i) \/ GotoReject(i)
    \/ IdleDone(i)
    \/ SiteTriggerDone(i) \/ SiteButtonDone(i) \/ SiteReject(i)
    \/ SitePopupDone(i) \/ SitePopupPageDone(i) \/ SitePopupIdleDone(i)
    \/ SitePopupCloseDone(i) \/ SiteIdleDone(i)
    \/ Pages2Resolve(i) \/ Pages2Reject(i)
    \/ CookiesEmpty(i) \/ CookiesFound(i) \/ CookiesReject(i)
    \/ WriteResolve(i) \/ WriteReject(i)
    \/ \E closed \in BOOLEAN : CatchCloseDone(i, closed)

\* ------------------------------------------------------- deleteSandbox
Idle == [pc |-> "idle", id |-> 0, alive |-> FALSE]

\* The call of slot d returns: the slot is free again.
DeleteReturn(d, outcome, id, alive) ==
    /\ del' = [del EXCEPT ![d] = Idle]
    /\ ret' = Returned("delete", outcome, [NoArgs EXCEPT !.id = id], <<>>, alive)

\* `this.sandboxes.delete(id)` and the return.
RemoveEntryMut(d, id, alive) ==
    /\ sandboxes' = {}
    /\ DeleteReturn(d, "ok", id, alive)
RemoveEntry(d, id, alive) ==
    /\ sandboxes' = sandboxes \ {id}
    /\ DeleteReturn(d, "ok", id, alive)

\* deleteSandbox from `sandbox.browser = null` on: the directory is removed
\* when sandbox.userDataDir is set, then the entry is removed.
AfterClose(d, id, alive, h) ==
    /\ heap' = [h EXCEPT ![id].browser = Null, ![id].page = Null]
    /\ IF heap[id].userDataDir # Null
       THEN /\ del' = [del EXCEPT ![d] = [pc |-> "rm", id |-> id, alive |-> alive]]
            /\ ret' = NoReturn
            /\ UNCHANGED sandboxes
       ELSE RemoveEntry(d, id, alive)

\* `const sandbox = this.sandboxes.get(id); if (!sandbox) throw ...`
RegisteredMut(id) == id \in everAssigned
Registered(id) == id \in sandboxes

\* deleteSandbox(id) for an id the Map does not hold: it throws.
DeleteNotFound(d, id) ==
    /\ del[d].pc = "idle"
    /\ ~Registered(id)
    /\ ret' = Returned("delete", "throw", [NoArgs EXCEPT !.id = id], <<>>, FALSE)
    /\ UNCHANGED <<sandboxes, sequence, heap, executablePath, task, proc, dir, installed, client, export,
                   del, everAssigned, finder, parser, scope, site>>

\* deleteSandbox(id) up to its first await: the status becomes 'stopped'; with
\* a browser handle it awaits browser.close(), else it goes on at once.
DeleteStart(d, id) ==
    /\ del[d].pc = "idle"
    /\ Registered(id)
    /\ IF heap[id].browser # Null
       THEN /\ heap' = [heap EXCEPT ![id].status = "stopped"]
            /\ del' = [del EXCEPT ![d] = [pc |-> "close", id |-> id, alive |-> proc[id]]]
            /\ ret' = NoReturn
            /\ UNCHANGED sandboxes
       ELSE AfterClose(d, id, proc[id], [heap EXCEPT ![id].status = "stopped"])
    /\ UNCHANGED <<sequence, executablePath, task, proc, dir, installed, client, export, everAssigned, finder, parser, scope, site>>

\* `await sandbox.browser.close().catch(() => {})` is over: the process is gone,
\* or the close failed and the failure is swallowed.
DeleteCloseDone(d, closed) ==
    /\ del[d].pc = "close"
    /\ proc' = [proc EXCEPT ![del[d].id] = IF closed THEN FALSE ELSE @]
    /\ AfterClose(d, del[d].id, del[d].alive, heap)
    /\ UNCHANGED <<sequence, executablePath, task, dir, installed, client, export, everAssigned, finder, parser, scope, site>>

\* `await fs.rm(...).catch(() => {})` is over: the directory is gone, or the
\* removal failed and the failure is swallowed; the entry is removed.
DeleteRmDoneMut(d, removed) ==
    /\ del[d].pc = "rm"
    /\ dir' = [dir EXCEPT ![del[d].id] = IF removed THEN FALSE ELSE @]
    /\ IF removed
       THEN RemoveEntry(d, del[d].id, del[d].alive)
       ELSE /\ DeleteReturn(d, "throw", del[d].id, del[d].alive)
            /\ UNCHANGED sandboxes
    /\ UNCHANGED <<sequence, heap, executablePath, task, proc, installed, client, export, everAssigned, finder, parser, scope, site>>
DeleteRmDone(d, removed) ==
    /\ del[d].pc = "rm"
    /\ dir' = [dir EXCEPT ![del[d].id] = IF removed THEN FALSE ELSE @]
    /\ RemoveEntry(d, del[d].id, del[d].alive)
    /\ UNCHANGED <<sequence, heap, executablePath, task, proc, installed, client, export, everAssigned, finder, parser, scope, site>>

\* A new call takes the first free slot.
FreeSlot(d) == del[d].pc = "idle" /\ \A e \in 1 .. d - 1 : del[e].pc # "idle"

\* A deleteSandbox call for a registered id.
DeleteCall(limit) ==
    \E d \in 1 .. MaxDeleters, id \in 1 .. limit : FreeSlot(d) /\ DeleteStart(d, id)

\* The calls in flight go on after their awaits.
DeleteStep ==
    \E d \in 1 .. MaxDeleters, ok \in BOOLEAN : DeleteCloseDone(d, ok) \/ DeleteRmDone(d, ok)

\* A deleteSandbox call for an id that is not registered.
DeleteCallNotFound ==
    \E d \in 1 .. MaxDeleters, id \in 1 .. MaxBatch + 1 : FreeSlot(d) /\ DeleteNotFound(d, id)

\* The variables of the SandboxManager.
managerVars ==
    <<sandboxes, sequence, heap, executablePath, task, proc, dir, installed, del, ret,
      everAssigned>>

\* ------------------------------------------------------ the cookie export
\* The three exporters: the cookie script of 111.bat ("bat"), the export
\* script part_001 ("ps1") and saveCookies of the SandboxManager ("js").
Exporters == {"bat", "ps1", "js"}

NoExport == [impl |-> "none", pc |-> "done", observed |-> <<>>, cookies |-> {},
             output |-> <<>>]

\* A string is the sequence of its characters.
Code(c) ==
    CASE c = "/" -> 47 [] c = "N" -> 78 [] c = "a" -> 97 [] c = "b" -> 98
      [] c = "m" -> 109 [] c = "n" -> 110 [] c = "x" -> 120 [] c = "|" -> 124

Lower(c) == IF c = "N" THEN "n" ELSE c

LowerStr(str) == [k \in DOMAIN str |-> Lower(str[k])]

\* a < b in the order of the character codes.
RECURSIVE LexLess(_, _)
LexLess(a, b) ==
    IF b = <<>> THEN FALSE
    ELSE IF a = <<>> THEN TRUE
    ELSE IF Code(Head(a)) # Code(Head(b)) THEN Code(Head(a)) < Code(Head(b))
    ELSE LexLess(Tail(a), Tail(b))

\* The comparison of Sort-Object and of the keys of a hashtable literal:
\* strings are compared without regard to case.
CiLess(a, b) == LexLess(LowerStr(a), LowerStr(b))
CiEqual(a, b) == LowerStr(a) = LowerStr(b)

\* a sorts before b on the properties `props`, taken in order.
RECURSIVE Before(_, _, _)
Before(a, b, props) ==
    IF props = <<>> THEN FALSE
    ELSE LET prop == Head(props)
         IN IF CiEqual(a[prop], b[prop]) THEN Before(a, b, Tail(props))
            ELSE CiLess(a[prop], b[prop])

\* The outcomes of `$set | Sort-Object -Property props`: the orders of the set
\* in which no cookie comes after one it sorts before.
SortObject(set, props) ==
    {p \in [1 .. Cardinality(set) -> set] :
        /\ \A k, l \in DOMAIN p : k # l => p[k] # p[l]
        /\ \A k, l \in DOMAIN p : k < l => ~Before(p[l], p[k], props)}

\* The cookies the harvest returns.
Domains == {<<"a">>, <<"b">>}
Names == {<<"m">>, <<"n">>, <<"N">>}
Paths == {<<"/">>, <<"/", "x">>}
Values == {"v1", "v2"}
Cookies == [domain : Domains, name : Names, path : Paths, value : Values]

Triple(cookie) == <<cookie.domain, cookie.name, cookie.path>>

\* `$key = "{0}|{1}|{2}" -f $cookie.domain, $cookie.name, $cookie.path`; the
\* hashtable literal @{} compares its keys without regard to case.
Key(cookie) == LowerStr(cookie.domain \o <<"|">> \o cookie.name \o <<"|">> \o cookie.path)

\* `$cookiesMap[$key] = $cookie` for each cookie of `observed`, in order.
RECURSIVE cookiesMap(_)
cookiesMap(observed) ==
    IF observed = <<>> THEN <<>>
    ELSE LET n == Len(observed)
             before == cookiesMap(SubSeq(observed, 1, n - 1))
             key == Key(observed[n])
         IN [k \in DOMAIN before \cup {key} |-> IF k = key THEN observed[n] ELSE before[k]]

\* `$cookies | Sort-Object domain, name, path -Unique`: of the cookies equal on
\* the three properties one is kept; which one is left open by Sort-Object.
Unique(observed) ==
    LET all == {observed[k] : k \in DOMAIN observed}
        same(a, b) == Key(a) = Key(b)
    IN {kept \in SUBSET all :
            \A c \in all : Cardinality({r \in kept : same(r, c)}) = 1}

\* The cookies are aggregated: $cookiesMap.Values in 111.bat, $unique in
\* part_001; saveCookies takes the cookies of its one request as they are.
Aggregate ==
    /\ export.pc = "harvested"
    /\ LET observed == export.observed
           map == cookiesMap(observed)
       IN \E cookies \in CASE export.impl = "bat" -> {{map[k] : k \in DOMAIN map}}
                            [] export.impl = "ps1" -> Unique(observed)
                            [] export.impl = "js" -> {{observed[k] : k \in DOMAIN observed}} :
             export' = [export EXCEPT !.pc = "aggregated", !.cookies = cookies]
    /\ UNCHANGED <<managerVars, client, finder, parser, scope, site>>

\* The cookie blocks are written: sorted by domain, path, name in 111.bat, in
\* the order of `Sort-Object domain, name, path` in part_001, and in the order
\* of the answer of the browser (cookies.map) in saveCookies.
Write ==
    /\ export.pc = "aggregated"
    /\ \E output \in CASE export.impl = "bat" ->
                              SortObject(export.cookies, <<"domain", "path", "name">>)
                         [] export.impl = "ps1" ->
                              SortObject(export.cookies, <<"domain", "name", "path">>)
                         [] export.impl = "js" -> {export.observed} :
          export' = [export EXCEPT !.pc = "written", !.output = output]
    /\ UNCHANGED <<managerVars, client, finder, parser, scope, site>>

\* ------------------------------------------- the cookie harvest client
\* One session of the harvest client on the DevTools channel of one target:
\* Get-CookiesFromTarget of 111.bat ("bat"), and the body of the target loop
\* of the export script part_001 ("ps1").
Impls == {"bat", "ps1"}

\* The frames the browser sends: the response to the request with id k, a
\* push-style event (it has no id, written 0), a frame that is no JSON.
Response(k) == [kind |-> "response", id |-> k]
Event == [kind |-> "event", id |-> 0]
Garbage == [kind |-> "garbage", id |-> 0]
NoFrame == [kind |-> "none", id |-> 0]
Frames == {Response(1), Response(2), Event, Garbage}

NoClient ==
    [impl |-> "none", depth |-> FALSE, pc |-> "done", commandId |-> 0, sent |-> {},
     delivered |-> {}, log |-> <<>>, enable |-> NoFrame, get |-> NoFrame,
     cookies |-> FALSE, socket |-> "none", awaiting |-> {}, exit |-> "none"]

\* The session after the socket is connected. `depth`: the ConvertFrom-Json
\* of the PowerShell that runs the script has the parameter -Depth.
Connected(impl, depth) ==
    [NoClient EXCEPT !.impl = impl, !.depth = depth, !.pc = "sendEnable", !.socket = "open"]

\* Send-DevToolsCommand / Send-Message: Network.enable with id 1, then
\* Network.getCookies with the next id; the receive call that follows waits
\* for the answer (`awaiting`).
SendCommand ==
    /\ client.pc \in {"sendEnable", "sendGet"}
    /\ LET id == IF client.pc = "sendEnable" THEN 1 ELSE client.commandId + 1
       IN client' = [client EXCEPT !.commandId = id,
                                   !.sent = @ \cup {id},
                                   !.awaiting = @ \cup {id},
                                   !.pc = IF client.pc = "sendEnable"
                                          THEN "recvEnable" ELSE "recvGet"]
    /\ UNCHANGED <<managerVars, export, finder, parser, scope, site>>

\* What the browser can send next: the response to a request that was sent
\* and not answered yet, an event once Network.enable has been answered, or
\* a frame that is no JSON.
Deliverable(f) ==
    \/ f.kind = "response" /\ f.id \in client.sent \ client.delivered
    \/ f.kind = "event" /\ 1 \in client.delivered
    \/ f.kind = "garbage"

\* Receive-DevToolsMessage of 111.bat: the frame is returned when it parses
\* (`ConvertFrom-Json -Depth 6` throws without the parameter -Depth, and the
\* catch block goes on with the loop) and its id equals $ExpectedId.
ReceiveDevToolsMessage(f, ExpectedId) ==
    client.depth /\ f.kind # "garbage" /\ f.id = ExpectedId

\* Receive-Message of part_001: the next frame is returned, whatever it is.
ReceiveMessage(f) == TRUE

\* The receive loop takes the frame f as the answer to the pending request.
Takes(f) ==
    IF client.impl = "bat" THEN ReceiveDevToolsMessage(f, client.commandId)
    ELSE ReceiveMessage(f)

\* `$data.id -eq 2 -and $data.result -and $data.result.cookies` of part_001;
\* 111.bat returns the cookies of the frame its receive loop returned.
HasCookies(f) ==
    IF client.impl = "bat" THEN TRUE
    ELSE f.kind = "response" /\ f.id = 2

\* A frame arrives while the client waits for the answer to its request.
Receive(f) ==
    /\ client.pc \in {"recvEnable", "recvGet"}
    /\ client.socket = "open"
    /\ Deliverable(f)
    /\ Len(client.log) < MaxFrames \/ (f.kind = "response" /\ f.id = client.commandId)
    /\ LET got == [client EXCEPT !.log = Append(@, f),
                                  !.delivered = IF f.kind = "response"
                                                THEN @ \cup {f.id} ELSE @]
       IN client' =
            IF ~Takes(f) THEN got
            ELSE IF client.pc = "recvEnable"
                 THEN [got EXCEPT !.enable = f, !.pc = "sendGet", !.awaiting = {}]
                 ELSE [got EXCEPT !.get = f, !.pc = "done", !.cookies = HasCookies(f),
                                  !.awaiting = {}]
    /\ UNCHANGED <<managerVars, export, finder, parser, scope, site>>

\* The browser closes the channel while the client waits: the receive call
\* returns nothing.  The answer to Network.enable is not looked at, so the
\* client goes on to its second request; without an answer to it the session
\* ends with no cookies.
Closed ==
    /\ client.pc \in {"recvEnable", "recvGet"}
    /\ client.socket = "open"
    /\ client' = [client EXCEPT !.pc = IF client.pc = "recvEnable" THEN "sendGet" ELSE "closed",
                                !.socket = "closeReceived",
                                !.awaiting = {}]
    /\ UNCHANGED <<managerVars, export, finder, parser, scope, site>>

\* A call on the socket (SendAsync, ReceiveAsync) throws: the catch block
\* ends the session with no cookies.
Throws ==
    /\ client.pc \in {"sendEnable", "sendGet", "recvEnable", "recvGet"}
    /\ client' = [client EXCEPT !.pc = "thrown", !.awaiting = {}]
    /\ UNCHANGED <<managerVars, export, finder, parser, scope, site>>

\* The finally block: 111.bat closes the socket when it is open and disposes
\* it, part_001 disposes it.
FinallyMut(c) == IF c.pc = "thrown" THEN c ELSE [c EXCEPT !.socket = "disposed"]
Finally(c) == [c EXCEPT !.socket = "disposed"]

\* The session leaves its try statement, with cookies (`return
\* $response.result.cookies`, `break`), without (`return @()`, `continue`) or
\* through the catch block, and the finally block runs.
Exit ==
    /\ client.pc \in {"done", "closed", "thrown"}
    /\ client' = [Finally(client) EXCEPT !.pc = "exited", !.exit = client.pc]
    /\ UNCHANGED <<managerVars, export, finder, parser, scope, site>>

\* ------------------------------------------------- findClickableByText
\* The characters of the texts; "U+00C9" and "U+00E9" are the letters É and é.
\* String.prototype.toLowerCase maps every cased letter.
toLowerCase(str) ==
    [k \in DOMAIN str |->
        CASE str[k] = "A" -> "a" [] str[k] = "B" -> "b"
          [] str[k] = "U+00C9" -> "U+00E9" [] OTHER -> str[k]]

\* XPath translate(., 'ABC...Z', 'abc...z') maps the 26 letters A-Z only.
translate(str) ==
    [k \in DOMAIN str |->
        CASE str[k] = "A" -> "a" [] str[k] = "B" -> "b" [] OTHER -> str[k]]

\* String.prototype.trim: no white space at either end.
WhiteSpace == {" ", "\t", "\r", "\n"}

RECURSIVE trim(_)
trim(str) ==
    IF str = <<>> THEN <<>>
    ELSE IF Head(str) \in WhiteSpace THEN trim(Tail(str))
    ELSE IF str[Len(str)] \in WhiteSpace THEN trim(SubSeq(str, 1, Len(str) - 1))
    ELSE str

\* XPath normalize-space: no blank at either end, one blank for every run.
RECURSIVE collapse(_)
collapse(str) ==
    IF Len(str) < 2 THEN str
    ELSE IF str[1] = " " /\ str[2] = " " THEN collapse(Tail(str))
    ELSE <<Head(str)>> \o collapse(Tail(str))

normalizeSpace(str) == collapse(trim(str))

\* XPath contains(text, keyword).
contains(text, keyword) ==
    \E k \in 0 .. Len(text) - Len(keyword) : SubSeq(text, k + 1, k + Len(keyword)) = keyword

\* `keyword.replace(/'/g, "\\'")`: a backslash before every apostrophe.
RECURSIVE escaped(_)
escaped(keyword) ==
    IF keyword = <<>> THEN <<>>
    ELSE (IF Head(keyword) = "'" THEN <<"\\", "'">> ELSE <<Head(keyword)>>)
         \o escaped(Tail(keyword))

\* The XPath string literal '...' around `literal` is well formed: XPath 1.0
\* has no escape character, an apostrophe inside ends the literal and the
\* expression does not parse.
Parses(literal) == \A k \in DOMAIN literal : literal[k] # "'"

\* The entries of a keywords array: strings and one value that is no string.
TextOf(chars) == [t |-> "string", s |-> chars]
NotText == [t |-> "number", s |-> <<>>]
KeywordInputs ==
    {TextOf(<<"a">>), TextOf(<<"B">>), TextOf(<<"U+00C9">>), TextOf(<<"'">>), TextOf(<<" ">>),
     NotText}

\* The `keywords` argument: an array of at most MaxKeywords entries, or a
\* value that is no array.
NotArray == [isArray |-> FALSE, items |-> <<>>]
KeywordsInputs ==
    {[isArray |-> TRUE, items |-> items] :
        items \in UNION {[1 .. n -> KeywordInputs] : n \in 0 .. MaxKeywords}}
    \cup {NotArray}

\* The computed style and the box of an element.
Shown == [display |-> "block", visibility |-> "visible", width |-> 1, height |-> 1]
Styles ==
    {Shown, [Shown EXCEPT !.display = "none"], [Shown EXCEPT !.visibility = "hidden"],
     [Shown EXCEPT !.width = 0, !.height = 0]}

\* The elements of the document: buttons of every text and style, and one
\* paragraph, an element of a kind that is not scanned.
TextInputs == {<<"A">>, <<"b", "a">>, <<" ", "a">>, <<"U+00C9">>}
Elements ==
    [tag : {"button"}, text : TextInputs, style : Styles]
    \cup {[tag |-> "p", text |-> <<"A">>, style |-> Shown]}
Documents == UNION {[1 .. n -> Elements] : n \in 0 .. MaxElements}

\* `tagNames = ['button', 'a', 'div', 'span']`
tagNames == {"button", "a", "div", "span"}

\* isElementVisible(handle) for the handle of `element`.
isElementVisible(element) ==
    /\ element.style.visibility # "hidden"
    /\ element.style.display # "none"
    /\ element.style.width > 0
    /\ element.style.height > 0

\* The keywords the loop runs over.
lowerKeywords(keywords) ==
    LET kept == SelectSeq(keywords, LAMBDA kw : kw.t = "string" /\ Len(trim(kw.s)) > 0)
    IN [k \in DOMAIN kept |-> toLowerCase(trim(kept[k].s))]

\* The predicate of `xpath` for one keyword.
xpath(element, keyword) ==
    /\ element.tag \in tagNames
    /\ contains(translate(normalizeSpace(element.text)), keyword)

\* The result of page.$x(xpath): the matching elements in document order.
handles(doc, keyword) ==
    SelectSeq([e \in DOMAIN doc |-> e], LAMBDA e : xpath(doc[e], keyword))

NoFinder ==
    [pc |-> "none", page |-> Null, keywords |-> NotArray, doc |-> <<>>, lowerKeywords |-> <<>>,
     keyword |-> 0, handles |-> <<>>, handle |-> 0, live |-> {}, inspected |-> {},
     result |-> {}]

\* findClickableByText(page, keywords) up to its first await, page.$x.
findClickableByText ==
    /\ finder.pc = "call"
    /\ IF \/ finder.page = Null
          \/ ~finder.keywords.isArray
          \/ Len(finder.keywords.items) = 0
          \/ Len(lowerKeywords(finder.keywords.items)) = 0
       THEN finder' = [finder EXCEPT !.pc = "returned", !.result = {}]
       ELSE finder' = [finder EXCEPT !.pc = "query",
                                     !.lowerKeywords = lowerKeywords(finder.keywords.items),
                                     !.keyword = 1]
    /\ UNCHANGED <<managerVars, client, export, parser, scope, site>>

\* The loop after the handles of a keyword are used up: the next keyword, or
\* `return null` after the last one.
NextKeyword(f) ==
    IF f.keyword < Len(f.lowerKeywords)
    THEN [f EXCEPT !.pc = "query", !.keyword = @ + 1, !.handles = <<>>, !.handle = 0]
    ELSE [f EXCEPT !.pc = "returned", !.result = {}]

\* `await page.$x(xpath)` resolved with the handles of the matching elements.
XPathResolve ==
    /\ finder.pc = "query"
    /\ Parses(escaped(finder.lowerKeywords[finder.keyword]))
    /\ LET found == handles(finder.doc, finder.lowerKeywords[finder.keyword])
           f == [finder EXCEPT !.handles = found,
                               !.live = @ \cup {<<finder.keyword, found[n]>> : n \in DOMAIN found}]
       IN finder' = IF found = <<>> THEN NextKeyword(f)
                    ELSE [f EXCEPT !.pc = "visible", !.handle = 1]
    /\ UNCHANGED <<managerVars, client, export, parser, scope, site>>

\* `await page.$x(xpath)` rejected, the expression does not parse:
\* findClickableByText rejects.
XPathReject ==
    /\ finder.pc = "query"
    /\ ~Parses(escaped(finder.lowerKeywords[finder.keyword]))
    /\ finder' = [finder EXCEPT !.pc = "thrown"]
    /\ UNCHANGED <<managerVars, client, export, parser, scope, site>>

\* `await isElementVisible(handle)` is over: `return handle`, or
\* handle.dispose() is called.
VisibleDone ==
    /\ finder.pc = "visible"
    /\ LET e == finder.handles[finder.handle]
           h == <<finder.keyword, e>>
           f == [finder EXCEPT !.inspected = @ \cup {h}]
       IN finder' = IF isElementVisible(finder.doc[e])
                    THEN [f EXCEPT !.pc = "returned", !.result = {h}]
                    ELSE [f EXCEPT !.pc = "dispose"]
    /\ UNCHANGED <<managerVars, client, export, parser, scope, site>>

\* `await handle.dispose()` is over: the next handle, or the next keyword.
DisposeDone ==
    /\ finder.pc = "dispose"
    /\ LET h == <<finder.keyword, finder.handles[finder.handle]>>
           f == [finder EXCEPT !.live = @ \ {h}]
       IN finder' = IF finder.handle < Len(finder.handles)
                    THEN [f EXCEPT !.pc = "visible", !.handle = @ + 1]
                    ELSE NextKeyword(f)
    /\ UNCHANGED <<managerVars, client, export, parser, scope, site>>

\* ------------------------------------------- parseAccounts, the raw text
\* `str.split(...)` at every character of `at`: the pieces between them.
RECURSIVE split(_, _)
split(str, at) ==
    IF \A k \in DOMAIN str : str[k] \notin at THEN <<str>>
    ELSE LET k == CHOOSE k \in DOMAIN str :
                     str[k] \in at /\ \A l \in 1 .. k - 1 : str[l] \notin at
         IN <<SubSeq(str, 1, k - 1)>> \o split(SubSeq(str, k + 1, Len(str)), at)

\* `raw.split(/\r?\n/)`: a carriage return before a line feed belongs to the
\* line break.
lines(raw) ==
    LET pieces == split(raw, {"\n"})
    IN [k \in DOMAIN pieces |->
          IF k < Len(pieces) /\ pieces[k] # <<>> /\ pieces[k][Len(pieces[k])] = "\r"
          THEN SubSeq(pieces[k], 1, Len(pieces[k]) - 1)
          ELSE pieces[k]]

\* `.map((chunk) => chunk.trim())`
trimmed(chunks) == [k \in DOMAIN chunks |-> trim(chunks[k])]

\* `const separators = [';', ',', '\t', '|']`
separators == <<";", ",", "\t", "|">>

\* The loop over the separators from `rest` on, `parts` being the value so
\* far: a separator the line includes splits it, and the loop stops at the
\* first split of three parts or more.
RECURSIVE separatorLoop(_, _, _)
separatorLoop(clean, rest, parts) ==
    IF rest = <<>> THEN parts
    ELSE IF \E k \in DOMAIN clean : clean[k] = Head(rest)
         THEN LET chunks == trimmed(split(clean, {Head(rest)}))
              IN IF Len(chunks) >= 3 THEN chunks
                 ELSE separatorLoop(clean, Tail(rest), chunks)
         ELSE separatorLoop(clean, Tail(rest), parts)

\* `parts` of a line after the loop and the split at '-' that follows it.
partsOf(clean) ==
    LET parts == separatorLoop(clean, separators, <<>>)
    IN IF Len(parts) < 3 /\ \E k \in DOMAIN clean : clean[k] = "-"
       THEN trimmed(split(clean, {"-"}))
       ELSE parts

\* `{ email: parts[0], password: parts[1], recoveryEmail: parts[2] }`
Record(parts) == [email |-> parts[1], password |-> parts[2], recoveryEmail |-> parts[3]]

\* What the lines `rest` push to `parsed` (parseAccounts, lines 34-55).
RECURSIVE pushed(_)
pushed(rest) ==
    IF rest = <<>> THEN <<>>
    ELSE LET clean == trim(Head(rest))
         IN (IF clean # <<>> /\ Len(partsOf(clean)) >= 3
             THEN <<Record(partsOf(clean))>> ELSE <<>>)
            \o pushed(Tail(rest))

\* parseAccounts([], rawAccounts)
parseRaw(rawAccounts) ==
    IF Len(trim(rawAccounts)) > 0 THEN pushed(lines(rawAccounts)) ELSE <<>>

\* parsedAccounts of the App for the lines `rest`: a split at every one of
\* ; | , tab, and when that gives fewer than three parts a split at the dashes
\* (/\s*-\s*/, then trimmed: the pieces of a split at '-', trimmed).
RECURSIVE mapped(_)
mapped(rest) ==
    IF rest = <<>> THEN <<>>
    ELSE LET line == trim(Head(rest))
             parts == trimmed(split(line, {";", "|", ",", "\t"}))
             dashParts == trimmed(split(line, {"-"}))
         IN (IF line = <<>> THEN <<>>
             ELSE IF Len(parts) >= 3 THEN <<Record(parts)>>
             ELSE IF Len(dashParts) >= 3 THEN <<Record(dashParts)>>
             ELSE <<>>)
            \o mapped(Tail(rest))

parsedAccounts(rawAccounts) == mapped(lines(rawAccounts))

\* The two parsers of the raw text: parseAccounts of the server and
\* parsedAccounts of the App.
Parsers == {"server", "app"}
Parse(impl, rawAccounts) ==
    IF impl = "server" THEN parseRaw(rawAccounts) ELSE parsedAccounts(rawAccounts)

\* The lines tried: fields a, b, c, d between every choice of separators, a
\* line of two fields, lines with blanks and with an empty field, blank lines.
SeparatorInputs == {";", ",", "\t", "|", "-"}
LineInputs ==
    {<<"a", s, "b">> : s \in SeparatorInputs}
    \cup {<<"a", s, "b", t, "c">> : s, t \in SeparatorInputs}
    \cup {<<"a", s, "b", t, "c", t, "d">> : s, t \in SeparatorInputs}
    \cup {<<>>, <<" ">>, <<" ", "a", " ", ";", "b", ";", "c", " ">>, <<"a", ";", ";", "c">>}

\* The raw texts: at most MaxLines lines, joined by either line break.
RECURSIVE Texts(_)
Texts(n) ==
    IF n = 1 THEN LineInputs
    ELSE Texts(n - 1)
         \cup {first \o break \o rest :
                 first \in LineInputs, rest \in Texts(n - 1),
                 break \in {<<"\n">>, <<"\r", "\n">>}}

RawInputs == Texts(MaxLines)

\* The text of `records`, one line 'email<sep>password<sep>recoveryEmail' each.
RECURSIVE Serialize(_, _)
Serialize(records, sep) ==
    IF records = <<>> THEN <<>>
    ELSE Head(records).email \o <<sep>> \o Head(records).password \o <<sep>>
         \o Head(records).recoveryEmail
         \o (IF Len(records) > 1 THEN <<"\n">> ELSE <<>>)
         \o Serialize(Tail(records), sep)

NoParser ==
    [pc |-> "none", impl |-> "server", raw |-> <<>>, parsed |-> <<>>, separator |-> ";",
     again |-> <<>>]

\* The parser is applied to the raw text.
ParseCall ==
    /\ parser.pc = "call"
    /\ parser' = [parser EXCEPT !.pc = "parsed", !.parsed = Parse(parser.impl, parser.raw)]
    /\ UNCHANGED <<managerVars, client, export, finder, scope, site>>

\* The parser is applied to the text of the records it returned, written with
\* one of the separators.
ReparseCall ==
    /\ parser.pc = "parsed"
    /\ \E sep \in SeparatorInputs :
          parser' = [parser EXCEPT !.pc = "reparsed", !.separator = sep,
                                   !.again = Parse(parser.impl,
                                                   Serialize(parser.parsed, sep))]
    /\ UNCHANGED <<managerVars, client, export, finder, scope, site>>

\* ------------------------------------------------- the harvest request
\* The page a harvest is for, and the URLs of a request.
PageUrls == [scheme : {"http", "https", "ftp"}, host : {"site"}, path : {"/", "/x"}]

\* `$urlsToQuery | Select-Object -Unique`: the first of equal strings stays.
RECURSIVE SelectUnique(_)
SelectUnique(list) ==
    IF list = <<>> THEN <<>>
    ELSE LET front == SelectUnique(SubSeq(list, 1, Len(list) - 1))
             last == list[Len(list)]
         IN IF \E k \in DOMAIN front : front[k] = last THEN front ELSE Append(front, last)

\* $urlsToQuery of the cookie script for the parsed $uri: its AbsoluteUri, then
\* "https://$domain/" and "http://$domain/" for the schemes it does not have.
urlsToQuery(uri) ==
    SelectUnique(
        <<uri>>
        \o (IF uri.scheme # "https"
            THEN <<[scheme |-> "https", host |-> uri.host, path |-> "/"]>> ELSE <<>>)
        \o (IF uri.scheme # "http"
            THEN <<[scheme |-> "http", host |-> uri.host, path |-> "/"]>> ELSE <<>>))

\* The cookies a browser holds: of the visited site and of the identity
\* provider the sandbox logged in to.
JarCookies == [domain : {"site", "idp"}, path : {"/", "/x"}, secure : BOOLEAN]

\* Network.getCookies with `urls`: the cookies the browser would send to one
\* of the URLs (its host, a path under the cookie's path, https for a secure
\* cookie).
getCookies(jar, urls) ==
    {c \in jar :
        \E k \in DOMAIN urls :
            /\ c.domain = urls[k].host
            /\ c.path \in {"/", urls[k].path}
            /\ c.secure => urls[k].scheme = "https"}

\* Network.getAllCookies: every cookie the browser holds.
getAllCookies(jar) == jar

\* The harvesters that persist a file: the cookie script of 111.bat and
\* saveCookies of the SandboxManager.
Harvesters == {"bat", "js"}

NoScope ==
    [pc |-> "none", impl |-> "bat", url |-> [scheme |-> "https", host |-> "site", path |-> "/"],
     jar |-> {}, method |-> "none", urls |-> <<>>, cookies |-> {}, file |-> FALSE,
     persisted |-> {}]

\* The request is sent: Get-CookiesFromTarget sends Network.getCookies with
\* $urlsToQuery, saveCookies sends Network.getAllCookies, which has no
\* parameters.
HarvestRequest ==
    /\ scope.pc = "ready"
    /\ scope' = IF scope.impl = "bat"
                THEN [scope EXCEPT !.pc = "requested", !.method = "Network.getCookies",
                                   !.urls = urlsToQuery(scope.url)]
                ELSE [scope EXCEPT !.pc = "requested", !.method = "Network.getAllCookies"]
    /\ UNCHANGED <<managerVars, client, export, finder, parser, site>>

\* The browser answers the request.
HarvestAnswer ==
    /\ scope.pc = "requested"
    /\ scope' = [scope EXCEPT !.pc = "answered",
                              !.cookies = IF scope.method = "Network.getCookies"
                                          THEN getCookies(scope.jar, scope.urls)
                                          ELSE getAllCookies(scope.jar)]
    /\ UNCHANGED <<managerVars, client, export, finder, parser, site>>

\* The cookies of the answer are written: the cookie script writes its file
\* also without cookies, saveCookies returns before writing when there are none.
HarvestPersist ==
    /\ scope.pc = "answered"
    /\ scope' = [scope EXCEPT !.pc = "persisted",
                              !.file = scope.impl = "bat" \/ scope.cookies # {},
                              !.persisted = scope.cookies]
    /\ UNCHANGED <<managerVars, client, export, finder, parser, site>>

\* ----------------------------------------------------- trySiteGoogleLogin
\* One call of trySiteGoogleLogin(browser, page), one step per await.  The
\* entries of LOGIN_KEYWORDS are numbered 1 .. MaxTriggers; `visible` holds
\* those for which findClickableByText finds a visible element and `google`
\* says whether it finds one for GOOGLE_KEYWORDS.  `clicks` lists the clicks
\* issued, a click on the Google button with whether the popup wait was
\* registered when it was issued; `wait` is popupTargetPromise ("none" before
\* browser.waitForTarget is called, "pending", "target" once a page target
\* opened by the page has appeared, "null" once the 10 s have passed and the
\* rejection has been caught); `opened` tells when the page opened its popup.
LOGIN_KEYWORDS == 1 .. MaxTriggers

NoSite ==
    [pc |-> "idle", visible |-> {}, google |-> FALSE, keyword |-> 0, clicks |-> <<>>,
     wait |-> "none", opened |-> "none", result |-> {}]

\* `await findClickableByText(page, [keyword])` of the trigger loop is over:
\* with an element it is clicked (clickAndDispose), without one the loop goes
\* on to the next keyword or, after the last one, to the Google button.
TriggerLoop ==
    /\ site.pc = "trigger"
    /\ site' = IF site.keyword \in site.visible
               THEN [site EXCEPT !.pc = "triggerClick",
                                 !.clicks = Append(@, <<"trigger", site.keyword>>)]
               ELSE IF site.keyword + 1 \in LOGIN_KEYWORDS
                    THEN [site EXCEPT !.keyword = @ + 1]
                    ELSE [site EXCEPT !.pc = "button"]
    /\ UNCHANGED <<managerVars, client, export, finder, parser, scope>>

\* `await clickAndDispose(trigger)` is over (a failed click is ignored), then
\* `await delay(1500)`; `break` leaves the loop.
TriggerClicked ==
    \/ /\ site.pc = "triggerClick"
       /\ site' = [site EXCEPT !.pc = "triggerDelay"]
       /\ UNCHANGED <<managerVars, client, export, finder, parser, scope>>
    \/ /\ site.pc = "triggerDelay"
       /\ site' = [site EXCEPT !.pc = "button"]
       /\ UNCHANGED <<managerVars, client, export, finder, parser, scope>>

\* A findClickableByText call rejects: trySiteGoogleLogin rejects.
FindRejects ==
    /\ site.pc \in {"trigger", "button"}
    /\ site' = [site EXCEPT !.pc = "rejected"]
    /\ UNCHANGED <<managerVars, client, export, finder, parser, scope>>

\* `browser.waitForTarget(..., { timeout: 10000 }).catch(() => null)`.
waitForTarget(s) == [s EXCEPT !.wait = "pending"]

\* clickAndDispose(googleButton) is called.
clickGoogle(s) == [s EXCEPT !.clicks = Append(@, <<"google", s.wait # "none">>)]

\* The code from the Google button to the await of its click.
RegisterAndClickMut(s) == waitForTarget(clickGoogle(s))
RegisterAndClick(s) == clickGoogle(waitForTarget(s))

\* `await findClickableByText(page, GOOGLE_KEYWORDS, ...)` is over: without a
\* button `return false`; with one the popup wait is registered and the
\* button clicked.
GoogleButton ==
    /\ site.pc = "button"
    /\ site' = IF site.google
               THEN [RegisterAndClick(site) EXCEPT !.pc = "click"]
               ELSE [site EXCEPT !.pc = "returned", !.result = {FALSE}]
    /\ UNCHANGED <<managerVars, client, export, finder, parser, scope>>

\* The page opens a window after the click on the Google button: a pending
\* popup wait resolves with its target; after the 10 s the window is late.
PopupOpens ==
    /\ site.pc \in {"click", "await"}
    /\ site.opened = "none"
    /\ site' = [site EXCEPT !.opened = IF site.wait = "null" THEN "late" ELSE "intime",
                            !.wait = IF @ = "pending" THEN "target" ELSE @]
    /\ UNCHANGED <<managerVars, client, export, finder, parser, scope>>

\* The 10 s of waitForTarget pass without a target: the rejection becomes null.
PopupTimeout ==
    /\ site.wait = "pending"
    /\ site' = [site EXCEPT !.wait = "null"]
    /\ UNCHANGED <<managerVars, client, export, finder, parser, scope>>

\* `await clickAndDispose(googleButton)` is over; `await popupTargetPromise`.
GoogleClicked ==
    /\ site.pc = "click"
    /\ site' = [site EXCEPT !.pc = "await"]
    /\ UNCHANGED <<managerVars, client, export, finder, parser, scope>>

\* `await popupTargetPromise` is over: with a target popupTarget.page() is
\* called, with null waitForPageIdle(page).
PopupTarget ==
    /\ site.pc = "await"
    /\ site.wait \in {"target", "null"}
    /\ site' = [site EXCEPT !.pc = IF site.wait = "target" THEN "popupPage" ELSE "pageIdle"]
    /\ UNCHANGED <<managerVars, client, export, finder, parser, scope>>

\* The branch of the popup: popupTarget.page() gives a page or null, then
\* waitForPageIdle(popupPage) with delay(2000), then popupPage.waitForClose;
\* `return true`.
PopupBranch ==
    /\ \/ site.pc = "popupPage" /\ \E next \in {"popupIdle", "returned"} : site' = [site EXCEPT !.pc = next, !.result = IF next = "returned" THEN {TRUE} ELSE @]
       \/ site.pc = "popupIdle" /\ site' = [site EXCEPT !.pc = "popupClose"]
       \/ site.pc = "popupClose" /\ site' = [site EXCEPT !.pc = "returned", !.result = {TRUE}]
    /\ UNCHANGED <<managerVars, client, export, finder, parser, scope>>

\* The branch without a popup: waitForPageIdle(page) and delay(1500);
\* `return true`.
PageBranch ==
    /\ site.pc = "pageIdle"
    /\ site' = [site EXCEPT !.pc = "returned", !.result = {TRUE}]
    /\ UNCHANGED <<managerVars, client, export, finder, parser, scope>>

\* ------------------------------------------------------------------ Init
InitManager ==
    /\ sandboxes = {}
    /\ sequence = 1
    /\ heap = <<>>
    /\ executablePath = Null
    /\ task = <<>>
    /\ proc = <<>>
    /\ dir = <<>>
    /\ installed \in BOOLEAN
    /\ del = [d \in 1 .. MaxDeleters |-> Idle]
    /\ ret = NoReturn
    /\ everAssigned = {}

Init ==
    /\ InitManager
    /\ client = NoClient
    /\ export = NoExport
    /\ finder = NoFinder
    /\ parser = NoParser
    /\ scope = NoScope
    /\ site = NoSite

\* The sandboxes of one manager from creation to deletion: every step of the
\* pipeline, overlapping deleteSandbox calls.
Next ==
    \/ CreateCall(MaxSandboxes, {JsNum(k) : k \in 1 .. MaxSandboxes}, LifecyclePools, FlagInputs)
    \/ \E i \in 1 .. MaxSandboxes : Launch(i) \/ Automation(i)
    \/ DeleteCall(MaxSandboxes)
    \/ DeleteStep

Spec == Init /\ [][Next]_vars

\* The two handlers under every input, valid or not, on a registry of several
\* sandboxes, before the pipelines have moved past their first await.
NextApi ==
    \/ CreateCall(MaxBatch, CountInputs, AccountInputs, ApiFlags)
    \/ CreateCallThrow
    \/ DeleteCall(MaxBatch)
    \/ DeleteCallNotFound
    \/ ListCall
    \/ \E k \in 1 .. MaxBatch, field \in {"status", "cookieFile", "account"} :
          CallerMutates(k, field)

SpecApi == Init /\ [][NextApi]_vars

\* Sibling sandboxes whose pipelines run side by side to their ends, nothing
\* deleted.
NextPipeline ==
    \/ CreateCall(MaxPipelines, {JsNum(k) : k \in 1 .. MaxPipelines}, PipelinePools, FlagInputs)
    \/ \E i \in 1 .. MaxPipelines : Launch(i) \/ Automation(i)

SpecPipeline == Init /\ [][NextPipeline]_vars

\* Every awaited operation of a pipeline settles (each browser operation
\* returns or hits its timeout), so a pipeline that can take a step takes one.
Fairness == \A i \in 1 .. MaxPipelines : WF_vars(Launch(i) \/ Automation(i))

SpecLive == SpecPipeline /\ Fairness

\* The promises deleteSandbox awaits (browser.close, fs.rm) settle.
DeleteFairness ==
    \A d \in 1 .. MaxDeleters :
        WF_vars(\E ok \in BOOLEAN : DeleteCloseDone(d, ok) \/ DeleteRmDone(d, ok))

SpecDelete == Spec /\ DeleteFairness

\* A batch of two sandboxes with deleteSandbox calls for either id in every
\* order: the pipeline of the first runs through every step while the second
\* is still at its first await.
NextRegistry ==
    \/ CreateCall(MaxPipelines, {JsNum(MaxPipelines)}, {<<A1>>}, {<<TRUE, TRUE>>})
    \/ Launch(1) \/ Automation(1)
    \/ DeleteCall(MaxPipelines)
    \/ DeleteStep

SpecRegistry == Init /\ [][NextRegistry]_vars

\* One harvest session of either client, under every order of frames.
InitHarvest ==
    /\ InitManager
    /\ \E impl \in Impls, depth \in BOOLEAN : client = Connected(impl, depth)
    /\ export = NoExport
    /\ finder = NoFinder
    /\ parser = NoParser
    /\ scope = NoScope
    /\ site = NoSite

NextHarvest ==
    \/ SendCommand
    \/ \E f \in Frames : Receive(f)
    \/ Closed
    \/ Throws
    \/ Exit

SpecHarvest == InitHarvest /\ [][NextHarvest]_vars

\* The sequences of at most MaxCookies cookies.
Observations == UNION {[1 .. n -> Cookies] : n \in 0 .. MaxCookies}

\* One export of each exporter over every sequence of observed cookies; the
\* browser answers one request with cookies of distinct (domain, name, path).
InitExport ==
    /\ InitManager
    /\ client = NoClient
    /\ \E impl \in Exporters, observed \in Observations :
          /\ impl = "js" =>
                \A k, l \in DOMAIN observed : k # l => Triple(observed[k]) # Triple(observed[l])
          /\ export = [NoExport EXCEPT !.impl = impl, !.pc = "harvested",
                                       !.observed = observed]
    /\ finder = NoFinder
    /\ parser = NoParser
    /\ scope = NoScope
    /\ site = NoSite

\* One findClickableByText call for every keywords argument on every document
\* (no document without a page).
InitFinder ==
    /\ InitManager
    /\ client = NoClient
    /\ export = NoExport
    /\ \E page \in {Null, "page"}, keywords \in KeywordsInputs, doc \in Documents :
          /\ page = Null => doc = <<>>
          /\ finder = [NoFinder EXCEPT !.pc = "call", !.page = page, !.keywords = keywords,
                                       !.doc = doc]
    /\ parser = NoParser
    /\ scope = NoScope
    /\ site = NoSite

NextFinder ==
    \/ findClickableByText
    \/ XPathResolve
    \/ XPathReject
    \/ VisibleDone
    \/ DisposeDone

SpecFinder == InitFinder /\ [][NextFinder]_vars

\* Either parser on every raw text, and again on the text of its records.
InitParser ==
    /\ InitManager
    /\ client = NoClient
    /\ export = NoExport
    /\ finder = NoFinder
    /\ \E impl \in Parsers, raw \in RawInputs :
          parser = [NoParser EXCEPT !.pc = "call", !.impl = impl, !.raw = raw]
    /\ scope = NoScope
    /\ site = NoSite

NextParser == ParseCall \/ ReparseCall

SpecParser == InitParser /\ [][NextParser]_vars

\* One harvest of either harvester for every page URL, in a browser holding
\* any set of cookies.
InitScope ==
    /\ InitManager
    /\ client = NoClient
    /\ export = NoExport
    /\ finder = NoFinder
    /\ parser = NoParser
    /\ \E impl \in Harvesters, url \in PageUrls, jar \in SUBSET JarCookies :
          scope = [NoScope EXCEPT !.pc = "ready", !.impl = impl, !.url = url, !.jar = jar]
    /\ site = NoSite

NextScope == HarvestRequest \/ HarvestAnswer \/ HarvestPersist

SpecScope == InitScope /\ [][NextScope]_vars

NextExport == Aggregate \/ Write

SpecExport == InitExport /\ [][NextExport]_vars

\* One trySiteGoogleLogin call on a page with any visible triggers, with or
\* without a Google button.
InitSite ==
    /\ InitManager
    /\ client = NoClient
    /\ export = NoExport
    /\ finder = NoFinder
    /\ parser = NoParser
    /\ scope = NoScope
    /\ \E visible \in SUBSET LOGIN_KEYWORDS, google \in BOOLEAN :
          site = [NoSite EXCEPT !.pc = "trigger", !.keyword = 1,
                                !.visible = visible, !.google = google]

NextSite ==
    \/ TriggerLoop
    \/ TriggerClicked
    \/ FindRejects
    \/ GoogleButton
    \/ PopupOpens
    \/ PopupTimeout
    \/ GoogleClicked
    \/ PopupTarget
    \/ PopupBranch
    \/ PageBranch

SpecSite == InitSite /\ [][NextSite]_vars

\* ---------------------------------------------------------------- claims
\* The step returned from a createSandboxes / deleteSandbox call.
CreateReturned == ret'.op = "create"
DeleteReturned == ret'.op = "delete"

\* C1: every id a createSandboxes call registers is greater than every id
\* assigned before it (also the ids of sandboxes deleted since), and the ids
\* of one call are strictly increasing in creation order.
C1_IdsStrictlyIncreasing ==
    [][/\ \A i \in sandboxes' \ sandboxes : \A j \in everAssigned : i > j
       /\ CreateReturned =>
            /\ \A k, l \in 1 .. Len(ret'.created) :
                  k < l => ret'.created[k].id < ret'.created[l].id
            /\ {ret'.created[k].id : k \in 1 .. Len(ret'.created)} = sandboxes' \ sandboxes
            /\ Cardinality(sandboxes' \ sandboxes) = Len(ret'.created)]_vars

\* C1 witness: a sandbox was created after an earlier one had been deleted.
C1_Witness ==
    \E i \in everAssigned \ sandboxes : \E j \in sandboxes : j > i

\* C2: only deleteSandbox sets the status 'stopped', and a status that is
\* 'stopped' is never changed again by any step.
C2_StoppedIsTerminal ==
    [][\A i \in Ids :
          /\ heap[i].status = "stopped" => heap'[i].status = "stopped"
          /\ (heap[i].status # "stopped" /\ heap'[i].status = "stopped") =>
                \/ \E d \in 1 .. MaxDeleters :
                      del[d].pc = "idle" /\ del'[d].pc # "idle" /\ del'[d].id = i
                \/ DeleteReturned /\ ret'.args.id = i]_vars

\* C3: a sandbox starts in 'initializing'; its status never goes from
\* 'running' or 'error' back to 'initializing', never from 'error' to
\* 'running', and leaves 'running' only for 'error' or, by delete, 'stopped'.
C3_OneDirectional ==
    [][/\ \A i \in Ids' \ Ids : heap'[i].status = "initializing"
       /\ \A i \in Ids :
            LET a == heap[i].status
                b == heap'[i].status
            IN /\ a \in {"running", "error"} => b # "initializing"
               /\ a = "error" => b # "running"
               /\ a = "running" => b \in {"running", "error", "stopped"}]_vars

\* C3 witness: a pipeline failed inside its try block and ran on to its end
\* with the status still 'error'.
C3_Witness ==
    \E i \in Ids :
        heap[i].status = "error" /\ task[i].pc = "failed" /\ heap[i].page # Null

\* C4: while the browser close or the directory removal of a deleteSandbox
\* call is pending, the entry it deletes is still in the registry (the entry
\* is removed only after both have finished).
C4_EntryKeptWhilePending ==
    \A d \in 1 .. MaxDeleters :
        del[d].pc \in {"close", "rm"} => del[d].id \in sandboxes

\* C5: when deleteSandbox returns for a sandbox whose browser process was
\* alive at the call, no process of the sandbox is alive and its profile
\* directory no longer exists.
C5_DeleteLeavesNothing ==
    [][(DeleteReturned /\ ret'.outcome = "ok" /\ ret'.alive) =>
          (~proc'[ret'.args.id] /\ ~dir'[ret'.args.id])]_vars

\* C6: deleteSandbox(id) for an id that is not in the registry throws and
\* changes nothing: registry, sandbox objects, id counter, pipelines,
\* processes, directories and the calls in flight stay as they were.
C6_DeleteUnknownIsNoop ==
    [][(DeleteReturned /\ ret'.args.id \notin sandboxes) =>
          /\ ret'.outcome = "throw"
          /\ UNCHANGED <<sandboxes, sequence, heap, executablePath, task, proc, dir,
                         del, everAssigned>>]_vars

\* C6 witness: a delete of an id that had been registered and removed was refused.
C6_Witness ==
    /\ ret.op = "delete"
    /\ ret.outcome = "throw"
    /\ ret.args.id \in everAssigned
    /\ sandboxes # {}

\* A target URL that is missing, empty or not a string.
UrlRefused(u) == u.t # "string" \/ u.s = ""

\* C7: createSandboxes with a missing, empty or non-string target URL throws
\* before anything is registered: registry, id counter and sandbox objects
\* are unchanged and no pipeline is started.
C7_BadUrlRejected ==
    [][(CreateReturned /\ UrlRefused(ret'.args.defaultUrl)) =>
          /\ ret'.outcome = "throw"
          /\ ret'.created = <<>>
          /\ UNCHANGED <<sandboxes, sequence, heap, task, proc, dir, everAssigned>>]_vars

\* C7 witness: a call with a non-string URL was refused on a registry that
\* holds sandboxes.
C7_Witness ==
    /\ ret.op = "create"
    /\ ret.outcome = "throw"
    /\ ret.args.defaultUrl.t = "number"
    /\ sandboxes # {}

\* A count that is a positive number.
PositiveCount(c) == c.t = "number" /\ c.n > 0

\* C8: a createSandboxes call whose count is zero, negative or not a number
\* is rejected with an error and registers no sandbox.
C8_BadCountRejected ==
    [][(CreateReturned /\ ret'.args.count.t # "undefined"
          /\ ~PositiveCount(ToNumber(ret'.args.count))) =>
          /\ ret'.outcome = "throw"
          /\ sandboxes' = sandboxes]_vars

\* C9: a valid createSandboxes call with count N registers exactly N new
\* entries and returns their N snapshots in id order, each 'initializing'
\* with no cookie file and no error; at the return every pipeline it started
\* is still at its first await and has changed nothing.
C9_CreateReturnsInitialSnapshots ==
    [][(CreateReturned /\ ret'.outcome = "ok" /\ PositiveCount(ret'.args.count)) =>
          LET n == ret'.args.count.n
              created == ret'.created
          IN /\ Len(created) = n
             /\ Cardinality(sandboxes' \ sandboxes) = n
             /\ sandboxes \subseteq sandboxes'
             /\ \A k \in 1 .. Len(created) :
                   /\ created[k].id = sequence + k - 1
                   /\ created[k].id \in sandboxes' \ sandboxes
                   /\ created[k].status = "initializing"
                   /\ created[k].cookieFile = Null
                   /\ created[k].error = Null
                   /\ created[k].currentUrl = Null
                   /\ created[k].defaultUrl = ret'.args.defaultUrl.s
                   /\ heap'[created[k].id].status = "initializing"
                   /\ heap'[created[k].id].userDataDir = Null
                   /\ heap'[created[k].id].browser = Null
                   /\ task'[created[k].id].pc = "mkdtemp"
                   /\ ~proc'[created[k].id]]_vars

\* C9 witness: a call with count 2 or more returned.
C9_Witness ==
    /\ ret.op = "create"
    /\ ret.outcome = "ok"
    /\ PositiveCount(ret.args.count)
    /\ Len(ret.created) >= 2

\* The identities of an input list that have an email and a password.
Pool(accounts) == SelectSeq(accounts, LAMBDA a : a.email # "" /\ a.password # "")

\* C10: within one createSandboxes call the i-th sandbox (i from 0) is bound
\* to pool[i mod P] for a parsed pool of P >= 1 identities, and to no
\* identity when the pool is empty.
C10_RoundRobin ==
    [][(CreateReturned /\ ret'.outcome = "ok") =>
          LET pool == Pool(ret'.args.accounts)
              P == Len(pool)
          IN \A k \in 1 .. Len(ret'.created) :
                LET sandbox == heap'[ret'.created[k].id]
                IN /\ P = 0 => sandbox.account = {} /\ ret'.created[k].account = {}
                   /\ P >= 1 =>
                        /\ sandbox.account = {pool[((k - 1) % P) + 1]}
                        /\ ret'.created[k].account =
                              {[email |-> pool[((k - 1) % P) + 1].email]}]_vars

\* C10 witness: three sandboxes over a pool of two identities, the third
\* bound to the first identity again.
C10_Witness ==
    /\ ret.op = "create"
    /\ ret.outcome = "ok"
    /\ Len(Pool(ret.args.accounts)) = 2
    /\ Len(ret.created) = 3
    /\ heap[ret.created[3].id].account = {A1}
    /\ heap[ret.created[2].id].account = {A2}
\* C11: every created sandbox that is not deleted eventually leaves
\* 'initializing' and reaches 'running' or 'error', when every awaited
\* operation of its pipeline settles.
C11_LeavesInitializing ==
    \A i \in 1 .. MaxPipelines :
        (i \in Ids /\ heap[i].status = "initializing")
            ~> (i \in Ids /\ heap[i].status \in {"running", "error"})

\* C11 witness: two pipelines are over, one in 'running' and one in 'error'.
C11_Witness ==
    \E i, j \in Ids :
        /\ task[i].pc = "done" /\ heap[i].status = "running"
        /\ task[j].pc = "failed" /\ heap[j].status = "error"
\* The messages of the errors the mandatory steps of loginToGoogle throw.
LoginFailures == {st[2] : st \in LoginSteps}

\* C12: when a mandatory step of loginToGoogle fails, the status becomes
\* 'error' with the reason in the error field, and from then on target
\* navigation, site automation and cookie harvest never run (currentUrl and
\* cookieFile stay null) and the status never becomes 'running'.
C12_LoginFailureAborts ==
    [][\A i \in Ids :
          /\ (task[i].thrown = Null /\ task'[i].thrown \in LoginFailures) =>
                /\ heap'[i].status = "error"
                /\ heap'[i].error = task'[i].thrown
                /\ task'[i].pc = "closing"
          /\ task[i].thrown \in LoginFailures =>
                /\ heap'[i].status \in {"error", "stopped"}
                /\ heap'[i].error = task[i].thrown
                /\ task'[i].thrown = task[i].thrown
                /\ task'[i].pc \in {"closing", "failed"}
                /\ heap'[i].currentUrl = Null
                /\ heap'[i].cookieFile = Null]_vars

\* C12 witness: the password field did not appear and the pipeline is over.
C12_Witness ==
    \E i \in Ids :
        /\ task[i].thrown = "password field missing"
        /\ task[i].pc = "failed"
        /\ heap[i].status = "error"

\* C13: a missing optional element (recovery field, site login trigger,
\* Google button) never aborts the pipeline: the step that misses it changes
\* no field of the sandbox, throws nothing and goes on to the next step; every
\* outcome of the recovery part goes on to the end of loginToGoogle.
C13_OptionalNeverAborts ==
    [][\A i \in Ids :
          /\ task'[i].soft # task[i].soft =>
                /\ heap'[i] = heap[i]
                /\ task'[i].thrown = task[i].thrown
                /\ task'[i].pc \in {"loginIdle", "siteButton", "pages2"}
          /\ (task[i].pc = "loginRecovery" /\ task'[i] # task[i]) =>
                /\ task'[i].pc = "loginIdle"
                /\ heap'[i] = heap[i]]_vars

\* C13 witness: a sandbox reached 'running' although the recovery field, the
\* site login trigger and the Google button were all missing.
C13_Witness ==
    \E i \in Ids :
        /\ task[i].soft = {"recovery", "trigger", "button"}
        /\ heap[i].status = "running"
        /\ heap[i].error = Null
\* C14: a cookie harvest that fails or returns no cookies leaves no cookie
\* file and does not affect the status: whatever the outcome of the first
\* harvest request, the pipeline throws nothing, the status does not become
\* 'error', and a harvest that ends there ends in 'running' with no cookie file.
C14_HarvestNeverAffectsStatus ==
    [][\A i \in Ids :
          (task[i].pc = "cookies" /\ task'[i].pc # "cookies") =>
              /\ task'[i].thrown = Null
              /\ heap'[i].status # "error"
              /\ task'[i].pc = "done" =>
                    heap'[i].status = "running" /\ heap'[i].cookieFile = Null]_vars
\* C15: a failure at a step of the pipeline of sandbox i changes only the
\* record of i: every other sandbox keeps all its fields, its pipeline keeps
\* its position, its process and directory are untouched, and the registry
\* and the id counter are unchanged.
C15_FailuresIsolated ==
    [][\A i \in Ids :
          (task'[i] # task[i] /\ task'[i].pc \in {"closing", "failed"}) =>
              /\ \A j \in Ids \ {i} :
                    /\ heap'[j] = heap[j]
                    /\ task'[j] = task[j]
                    /\ proc'[j] = proc[j]
                    /\ dir'[j] = dir[j]
              /\ UNCHANGED <<sandboxes, sequence>>]_vars

\* C15 witness: one pipeline has failed, and its sibling, started by the same
\* call, went on to 'running'.
C15_Witness ==
    \E i, j \in Ids :
        /\ task[i].pc = "failed" /\ heap[i].status = "error"
        /\ task[j].pc = "done" /\ heap[j].status = "running" /\ heap[j].error = Null
        /\ {i, j} \subseteq sandboxes

\* C16: when no browser executable can be detected, a createSandboxes call
\* fails and registers nothing: no record is created and no id is consumed.
C16_NoRecordWithoutBrowser ==
    [][(CreateReturned /\ ~installed /\ executablePath = Null) =>
          /\ ret'.outcome = "throw"
          /\ UNCHANGED <<sandboxes, sequence, heap>>]_vars

\* The positions of launchSandbox up to the end of puppeteer.launch.
LaunchPcs == {"mkdtemp", "launch", "handshake"}

C18_AnswerMatchesRequestId ==
    /\ client.enable # NoFrame => client.enable = Response(1)
    /\ client.get # NoFrame => client.get = Response(2)
    /\ client.pc = "done" => client.cookies
\* The cookie observed last among those of `observed` with the triple t.
LastObserved(observed, t) ==
    observed[CHOOSE k \in DOMAIN observed :
                /\ Triple(observed[k]) = t
                /\ \A l \in DOMAIN observed : Triple(observed[l]) = t => l <= k]

\* C19: the aggregated result of the exporters that aggregate (111.bat,
\* part_001) holds one record per observed triple (domain, name, path), the
\* one observed last.
C19_DedupLastObservedWins ==
    (export.impl \in {"bat", "ps1"} /\ export.pc \in {"aggregated", "written"}) =>
        export.cookies =
            {LastObserved(export.observed, Triple(export.observed[k])) :
                k \in DOMAIN export.observed}

\* C20: the cookie blocks of a written file are in the order of (domain,
\* path, name): no block comes after a block it sorts before.
C20_OutputSortedByDomainPathName ==
    export.pc = "written" =>
        \A k, l \in DOMAIN export.output :
            k < l => ~Before(export.output[l], export.output[k], <<"domain", "path", "name">>)
C27_RemovedOnlyByDelete ==
    [][/\ \A id \in sandboxes \ sandboxes' :
            /\ DeleteReturned
            /\ ret'.outcome = "ok"
            /\ ret'.args.id = id
       /\ \A id \in sandboxes' :
            (/\ task'[id].pc = "failed"
             /\ \A d \in 1 .. MaxDeleters : del'[d].pc # "idle" => del'[d].id # id)
            => /\ heap'[id].status = "error"
               /\ heap'[id].error = task'[id].thrown
               /\ heap'[id].error # Null
               /\ \E summary \in listSandboxes' :
                     /\ summary.id = id
                     /\ summary.status = "error"
                     /\ summary.error = task'[id].thrown]_vars

\* C27 witness: the pipeline of sandbox 1 has failed and sandbox 2 has been
\* deleted since; sandbox 1 is still registered with 'error'.
C27_Witness ==
    /\ sandboxes = {1}
    /\ 2 \in everAssigned
    /\ task[1].pc = "failed"
    /\ heap[1].status = "error"
    /\ heap[1].error # Null
    /\ ret.op = "delete" /\ ret.args.id = 2

\* C28: the cookieFile of a sandbox is null when the sandbox is created, is
\* assigned only by the step of saveCookies that follows the written file of
\* a harvest that returned cookies, and once assigned never changes; a
\* sandbox whose pipeline has thrown has cookieFile = null.
C28_CookieFileAssignedOnce ==
    [][/\ \A i \in Ids' \ Ids : heap'[i].cookieFile = Null
       /\ \A i \in Ids :
            /\ heap[i].cookieFile # Null => heap'[i].cookieFile = heap[i].cookieFile
            /\ (heap[i].cookieFile = Null /\ heap'[i].cookieFile # Null)
               => task[i].pc = "write" /\ task'[i].pc = "done"
            /\ task'[i].thrown # Null => heap'[i].cookieFile = Null]_vars

\* C28 witness: a sandbox holds a cookie file, another step has been taken
\* since (its deletion has begun), and the reference is still there.
C28_Witness ==
    \E i \in Ids :
        /\ heap[i].cookieFile = "file"
        /\ task[i].pc = "done"
        /\ \E d \in 1 .. MaxDeleters : del[d].pc = "rm" /\ del[d].id = i

\* C30: a sandbox that is no longer registered, whose pipeline has ended and
\* for which no deleteSandbox call is in flight, and whose record holds a
\* browser handle (every deleteSandbox call for it began before launchSandbox
\* stored the handle: a later call would have cleared it), has no live
\* browser process and no profile directory.
C30_DeleteDuringLaunchLeavesNothing ==
    \A i \in Ids \ sandboxes :
        (/\ task[i].pc \in {"done", "failed"}
         /\ \A d \in 1 .. MaxDeleters : del[d].pc # "idle" => del[d].id # i
         /\ heap[i].browser # Null)
        => ~proc[i] /\ ~dir[i]

\* The positions of trySiteGoogleLogin after the click on the Google button.
AfterClick == {"sitePopup", "sitePopupPage", "sitePopupIdle", "sitePopupClose", "siteIdle"}

\* C23: after the click trySiteGoogleLogin returns only from the end of one
\* of its two waits: from the wait for the popup to close, which follows the
\* wait for the popup to settle, when a popup appeared, and from the wait for
\* the original page to settle when none appeared; a call that saw a popup
\* never waits on the original page.
C23_ReturnsAfterOneWait ==
    [][\A i \in Ids :
          /\ (task[i].pc \in AfterClick /\ task'[i].pc \notin AfterClick)
             => task[i].pc \in {"sitePopupClose", "siteIdle"}
          /\ task'[i].pc = "sitePopupClose" /\ task[i].pc # "sitePopupClose"
             => task[i].pc = "sitePopupIdle"
          /\ task[i].pc \in {"sitePopupPage", "sitePopupIdle", "sitePopupClose"}
             => task'[i].pc # "siteIdle"
          /\ task'[i].pc = "siteIdle" /\ task[i].pc # "siteIdle"
             => task[i].pc = "sitePopup"]_vars

\* Case-insensitive containment of a keyword in the normalized text.
CiContains(text, keyword) ==
    contains(toLowerCase(normalizeSpace(text)), toLowerCase(trim(keyword)))

\* Element e of the document is a candidate for entry j of the keywords: the
\* entry is a non-blank string, the element is of a scanned kind, its text
\* contains the keyword, and it is geometrically visible.
Qualifies(j, e) ==
    LET kw == finder.keywords.items[j]
        element == finder.doc[e]
    IN /\ kw.t = "string" /\ trim(kw.s) # <<>>
       /\ element.tag \in tagNames
       /\ CiContains(element.text, kw.s)
       /\ element.style = Shown

\* The call is over.
FinderEnded == finder.pc \in {"returned", "thrown"}

\* C21: when the call is over and some element qualifies, the call has
\* returned the handle of the first qualifying element in keyword-list order,
\* then document order: the element e qualifying for keyword j such that no
\* element qualifies for an earlier keyword and no earlier element for j.
C21_FirstVisibleInKeywordThenDocumentOrder ==
    FinderEnded =>
        \A j \in DOMAIN finder.keywords.items, e \in DOMAIN finder.doc :
            (/\ Qualifies(j, e)
             /\ \A i \in 1 .. j - 1, d \in DOMAIN finder.doc : ~Qualifies(i, d)
             /\ \A d \in 1 .. e - 1 : ~Qualifies(j, d))
            => /\ finder.pc = "returned"
               /\ \E h \in finder.result :
                     /\ h[2] = e
                     /\ finder.lowerKeywords[h[1]] = toLowerCase(trim(finder.keywords.items[j].s))

\* C22: when the call is over and no element qualifies for any keyword, the
\* call has returned null (it has not thrown) and no handle it obtained is
\* left unreleased.
C22_NotFoundIsNullAndReleased ==
    (/\ FinderEnded
     /\ \A j \in DOMAIN finder.keywords.items, e \in DOMAIN finder.doc : ~Qualifies(j, e))
    => /\ finder.pc = "returned"
       /\ finder.result = {}
       /\ finder.live = {}

\* C24: the records parseAccounts returns for the text of the records it
\* parsed from a raw text, written one per line with a separator between the
\* fields, are the records it parsed from the raw text.
C24_ParseIsIdempotent ==
    (parser.pc = "reparsed" /\ parser.impl = "server") => parser.again = parser.parsed

\* The fields of a line under the separators ; , tab and -.
Fields(line) == trimmed(split(trim(line), {";", ",", "\t", "-"}))

\* The records of the lines `rest`: one for every non-blank line of three
\* fields or more, made of its first three fields; nothing for the others.
RECURSIVE PoolOf(_)
PoolOf(rest) ==
    IF rest = <<>> THEN <<>>
    ELSE (IF trim(Head(rest)) # <<>> /\ Len(Fields(Head(rest))) >= 3
          THEN <<Record(Fields(Head(rest)))>> ELSE <<>>)
         \o PoolOf(Tail(rest))

\* C25: the records parsed from a raw text are, in line order, one record
\* for every non-blank line that has three fields or more under the
\* separators ; , tab -, made of its first three fields as email, password
\* and recoveryEmail; the other lines contribute nothing.
C25_OneRecordPerLineOfThreeFields ==
    parser.pc \in {"parsed", "reparsed"} => parser.parsed = PoolOf(lines(parser.raw))

\* C29: the request of a harvest asks for the URL of the page and for an http
\* and an https URL of its host, every URL once and no URL of another host;
\* every cookie a harvest persists is one the browser returns for those URLs,
\* a cookie of the host of the page.
C29_HarvestScopedToVisitedPage ==
    /\ scope.pc \in {"requested", "answered", "persisted"} =>
          /\ \E k \in DOMAIN scope.urls : scope.urls[k] = scope.url
          /\ \E k \in DOMAIN scope.urls :
                scope.urls[k].scheme = "http" /\ scope.urls[k].host = scope.url.host
          /\ \E k \in DOMAIN scope.urls :
                scope.urls[k].scheme = "https" /\ scope.urls[k].host = scope.url.host
          /\ \A k, l \in DOMAIN scope.urls : k # l => scope.urls[k] # scope.urls[l]
          /\ \A k \in DOMAIN scope.urls : scope.urls[k].host = scope.url.host
    /\ scope.pc = "persisted" =>
          \A c \in scope.persisted :
              /\ c \in getCookies(scope.jar, scope.urls)
              /\ c.domain = scope.url.host

\* The positions of a pipeline that has not failed, in the order of the steps.
StepOrder ==
    <<"mkdtemp", "launch", "handshake", "pages",
      "login", "loginEmail", "loginPassword", "loginRecovery", "loginIdle",
      "goto", "idle",
      "site", "siteButton", "sitePopup", "sitePopupPage", "sitePopupIdle", "sitePopupClose",
      "siteIdle",
      "pages2", "cookies", "write", "done">>

Rank(pc) == CHOOSE k \in DOMAIN StepOrder : StepOrder[k] = pc

\* C31: a pipeline that has not failed only moves forward through launch,
\* login, navigation, site automation, harvest and status update: the
\* navigation starts from the end of the login when the login is enabled and
\* from the page otherwise, the harvest starts only after the navigation and
\* the site automation are over, and the status becomes 'running' only in the
\* step in which the harvest returns.
C31_StepsInFixedOrder ==
    [][\A i \in Ids :
          LET from == task[i].pc
              to == task'[i].pc
          IN /\ (to # from /\ to \notin {"failed", "closing"}) =>
                   /\ from \notin {"failed", "closing"}
                   /\ Rank(from) < Rank(to)
             /\ (to = "goto" /\ from # "goto") =>
                   from = (IF LoginGate(heap[i]) THEN "loginIdle" ELSE "pages")
             /\ (to = "pages2" /\ from # "pages2") =>
                   from \in (IF SiteGate(heap[i])
                             THEN {"siteButton", "sitePopupPage", "sitePopupClose", "siteIdle"}
                             ELSE {"idle"})
             /\ (to = "cookies" /\ from # "cookies") => from = "pages2"
             /\ (heap'[i].status = "running" /\ heap[i].status # "running") =>
                   from \in {"cookies", "write"} /\ to = "done"]_vars

\* C31 witness: a pipeline with login and site automation has run through
\* every step and written its cookie file.
C31_Witness ==
    \E i \in Ids :
        /\ LoginGate(heap[i]) /\ SiteGate(heap[i])
        /\ task[i].pc = "done"
        /\ heap[i].status = "running"
        /\ heap[i].cookieFile # Null
        /\ i \in sandboxes

\* C33: every registered sandbox with the status 'running' has error = null
\* and every one with the status 'error' has an error message; the step that
\* sets the status 'error' sets the message, and no step sets a message
\* without the status 'error'.
C33_StatusAndErrorAgree ==
    [][\A i \in Ids' :
          /\ i \in sandboxes' =>
                /\ heap'[i].status = "running" => heap'[i].error = Null
                /\ heap'[i].status = "error" => heap'[i].error # Null
          /\ (i \in Ids /\ heap'[i].error # heap[i].error) =>
                heap'[i].status = "error" /\ heap'[i].error # Null]_vars

\* C33 witness: the catch block of a pipeline has run and the close of the
\* browser is pending: the registered sandbox shows 'error' and its message.
C33_Witness ==
    \E i \in sandboxes :
        /\ task[i].pc = "closing"
        /\ heap[i].status = "error"
        /\ heap[i].error = task[i].thrown
        /\ heap[i].error # Null

\* C34: the step after the page is opened is the login exactly when
\* useGoogleLogin is set and an account is bound, else the navigation; the
\* step after the navigation has settled is the site automation exactly when
\* useGoogleLogin and enableSiteAutomation are set and an account is bound,
\* else the harvest; such a step leaves status and error as they were.
C34_OptionalStepsGated ==
    [][\A i \in Ids :
          LET from == task[i].pc
              to == task'[i].pc
              bound == heap[i].account # {}
              login == heap[i].useGoogleLogin /\ bound
              automated == heap[i].useGoogleLogin /\ heap[i].enableSiteAutomation /\ bound
          IN /\ (from = "pages" /\ to \notin {"pages", "failed"}) =>
                   /\ to = (IF login THEN "login" ELSE "goto")
                   /\ heap'[i].status = heap[i].status /\ heap'[i].error = heap[i].error
             /\ (from = "idle" /\ to \notin {"idle", "failed", "closing"}) =>
                   /\ to = (IF automated THEN "site" ELSE "pages2")
                   /\ heap'[i].status = heap[i].status /\ heap'[i].error = heap[i].error
             /\ (to = "login" /\ from # "login") => from = "pages"
             /\ (to = "site" /\ from # "site") => from = "idle"]_vars

\* C34 witness: a sandbox created with useGoogleLogin and site automation but
\* with no account to bind has reached 'running' through navigation and
\* harvest.
C34_Witness ==
    \E i \in sandboxes :
        /\ heap[i].useGoogleLogin /\ heap[i].enableSiteAutomation
        /\ heap[i].account = {}
        /\ task[i].pc = "done"
        /\ heap[i].status = "running"
        /\ heap[i].currentUrl # Null

\* The sandbox with the password and the recovery email of its account
\* replaced.
WithCredentials(sandbox, password, recoveryEmail) ==
    [sandbox EXCEPT !.account =
        {[a EXCEPT !.password = password, !.recoveryEmail = recoveryEmail] : a \in @}]

\* C35: the summary of a sandbox is the same for every password and recovery
\* email of its account, and the summaries createSandboxes and listSandboxes
\* return hold the fields id, status, defaultUrl, currentUrl, account,
\* cookieFile and error, the account with its email only.
C35_SummariesHideCredentials ==
    /\ \A i \in Ids, password \in {"pw1", "pw2", "pw3"}, recoveryEmail \in {"", "r@x.com", "s@x.com"} :
          serializeSandbox(WithCredentials(heap[i], password, recoveryEmail))
          = serializeSandbox(heap[i])
    /\ ret.op \in {"create", "list"} =>
          \A k \in DOMAIN ret.created :
              /\ DOMAIN ret.created[k]
                 = {"id", "status", "defaultUrl", "currentUrl", "account", "cookieFile", "error"}
              /\ \A a \in ret.created[k].account : DOMAIN a = {"email"}
              /\ ret.created[k].id \in Ids
              /\ \A a \in ret.created[k].account :
                    \E b \in heap[ret.created[k].id].account : a.email = b.email

\* C35 witness: listSandboxes has returned the summary of a sandbox bound to
\* an account with a password and a recovery email.
C35_Witness ==
    /\ ret.op = "list"
    /\ \E k \in DOMAIN ret.created :
          /\ ret.created[k].account = {[email |-> "a@x.com"]}
          /\ \E a \in heap[ret.created[k].id].account :
                a.password = "pw1" /\ a.recoveryEmail = "r@x.com"

\* Two deleteSandbox calls for the same id are in flight at the given await.
BothAt(pc) ==
    \E d, e \in 1 .. MaxDeleters :
        d # e /\ del[d].pc = pc /\ del[e].pc = pc /\ del[d].id = del[e].id

\* C36: of two overlapping deleteSandbox calls for one registered id exactly
\* one succeeds and the other fails with not-found, and the browser close,
\* the directory removal and the entry removal are each done at most once for
\* the id: no two calls await the close of the same sandbox, no two await the
\* removal of its directory, and a call that returns with success removes an
\* entry that is still registered.
C36_OverlappingDeletesTearDownOnce ==
    /\ [](~BothAt("close") /\ ~BothAt("rm"))
    /\ [][\A d \in 1 .. MaxDeleters :
              (del[d].pc # "idle" /\ del'[d].pc = "idle" /\ DeleteReturned /\ ret'.outcome = "ok")
              => del[d].id \in sandboxes]_vars

\* C37: a registered sandbox seen with status 'stopped' has its entry removed
\* in the end, also when the browser close or the directory removal fails.
C37_StoppedEntryIsRemoved ==
    \A i \in 1 .. MaxSandboxes :
        (i \in sandboxes /\ heap[i].status = "stopped") ~> (i \notin sandboxes)

\* C37 witness: deleteSandbox has returned and the entry is gone although the
\* browser process and the profile directory of the stopped sandbox are still
\* there (the close and the removal failed).
C37_Witness ==
    /\ ret.op = "delete" /\ ret.outcome = "ok"
    /\ \E i \in everAssigned :
          /\ i \notin sandboxes
          /\ heap[i].status = "stopped"
          /\ heap[i].browser # Null /\ proc[i]
          /\ heap[i].userDataDir # Null /\ dir[i]

\* The clicks of the call on login triggers, and on the Google button.
TriggerClicks == {k \in DOMAIN site.clicks : site.clicks[k][1] = "trigger"}
GoogleClicks == {k \in DOMAIN site.clicks : site.clicks[k][1] = "google"}

\* The call is past `await popupTargetPromise`, in the branch without a popup.
NoPopupSeen == site.pc = "pageIdle" \/ (site.pc = "returned" /\ site.wait = "null")

\* C38: trySiteGoogleLogin registers the popup wait before it clicks the
\* Google button, so a window the page opens after the click within the wait
\* bound is the target the call gets and it never takes the branch without a
\* popup; it clicks at most one login trigger, the first keyword with a
\* visible match; without a Google button it returns false with no popup wait
\* registered and nothing clicked after the trigger.
C38_PopupWaitBeforeClick ==
    /\ \A k \in GoogleClicks : site.clicks[k][2]
    /\ site.opened = "intime" => site.wait = "target" /\ ~NoPopupSeen
    /\ Cardinality(TriggerClicks) <= 1
    /\ \A k \in TriggerClicks :
          /\ site.clicks[k][2] \in site.visible
          /\ \A j \in site.visible : site.clicks[k][2] <= j
    /\ (site.pc = "returned" /\ ~site.google) =>
          /\ site.result = {FALSE}
          /\ site.wait = "none"
          /\ GoogleClicks = {}

\* C38 witness: after a click on the second login keyword (the first has no
\* visible match, the third has one too) the Google button was clicked, the
\* page opened its window while the click was still awaited, and the call
\* returned true through the popup branch.
C38_Witness ==
    /\ site.pc = "returned" /\ site.result = {TRUE}
    /\ site.visible = {2, 3}
    /\ site.clicks = << <<"trigger", 2>>, <<"google", TRUE>> >>
    /\ site.opened = "intime" /\ site.wait = "target"

\* C39: the aggregation of 111.bat collapses two cookies only when domain,
\* name and path are all equal: every observed triple (domain, name, path),
\* also one that differs from another in letter case only, has a cookie in
\* the aggregated result.
C39_DistinctTriplesAllKept ==
    (export.impl = "bat" /\ export.pc \in {"aggregated", "written"}) =>
        \A k \in DOMAIN export.observed :
            \E cookie \in export.cookies : Triple(cookie) = Triple(export.observed[k])

\* C40: once findClickableByText has returned, null or a match, every handle
\* it obtained from the page other than the one it returned has been
\* released, also the handles that follow the match in the result of the
\* query.
C40_OnlyReturnedHandleLeft ==
    finder.pc = "returned" => finder.live \subseteq finder.result

\* C32: the harvest client sends its two requests one after the other with
\* the ids 1 and 2: a request is sent only when the client waits for no
\* answer, the second only after the wait for the answer to the first has
\* ended, so it waits for at most one answer at a time; and on every way out
\* of the session (cookies, no cookies, exception) the socket is disposed.
C32_SequentialRequestsThenDispose ==
    /\ [](Cardinality(client.awaiting) <= 1)
    /\ [](client.pc = "exited" => client.socket = "disposed")
    /\ [][client'.sent # client.sent =>
             /\ client.awaiting = {}
             /\ client'.sent = client.sent \cup {client'.commandId}
             /\ client'.commandId = Cardinality(client.sent) + 1
             /\ client'.commandId <= 2
             /\ client'.awaiting = {client'.commandId}
             /\ client'.commandId = 2 => client.pc = "sendGet"]_vars
    /\ [][client'.pc = "exited" => client.pc \in {"done", "closed", "thrown"}]_vars

\* C32 witness: a session in which the second request was sent after the
\* answer to the first was received has ended in an exception and its socket
\* is disposed.
C32_Witness ==
    /\ client.pc = "exited" /\ client.exit = "thrown"
    /\ client.sent = {1, 2} /\ client.enable = Response(1)
    /\ client.socket = "disposed"
====
